---- MODULE Spec2Model ----
(***************************************************************************)
(* Restaurant Duty PWA: local store (Dexie tables), PIN authenticator,     *)
(* session store, checklist page and the submission endpoint.              *)
(*                                                                         *)
(* Handlers are modelled as atomic steps.  Time is the value of Date.now() *)
(* in milliseconds.  The browser either offers crypto.randomUUID or not;   *)
(* a browser upgrade can make it available while the IndexedDB content is  *)
(* kept.                                                                   *)
(***************************************************************************)
EXTENDS Integers, Sequences, FiniteSets, Bags, TLC

VARIABLES
    randomUUIDAvailable, \* typeof crypto.randomUUID === 'function'
    deviceConfig,        \* db.deviceConfig singleton ('device_config')
    staff,               \* db.staff: id -> record
    auditLog,            \* db.auditLog, in insertion order
    now,                 \* Date.now()
    truePin,             \* history: the PIN whose digest is stored per manager
    wrongRun,            \* history: consecutive wrong-PIN verifies from Unlocked(0)
    lastCall,            \* history: the last PIN-related call and what it returned
    checklists,          \* db.checklists: id -> ChecklistInstance
    submissions,         \* db.submissions: id -> PendingSubmission
    currentChecklist,    \* useSessionStore: currentChecklist
    pageChecklist,       \* ChecklistPage: the checklist state of the mounted page
    showManagerAuth,     \* ChecklistPage: showManagerAuth
    outboxInFlight,      \* sync outbox: ids of the submissions with an attempt in flight
    attemptLog,          \* history: the current or last attempt of the outbox
    sheetRows,           \* the rows appended to the mirror sheet
    callLog,             \* history: the POST /api/submit calls and their responses
    error,               \* useSessionStore: error
    existingSession,     \* HomePage: what checkForActiveSessions last returned
    lastStats,           \* history: the last calculateCompletionStats call
    lastDelay            \* history: the last two calculateRetryDelay calls

syncVars == <<submissions, outboxInFlight, attemptLog, sheetRows, callLog>>

queryVars == <<error, existingSession, lastStats, lastDelay>>

sessionVars == <<checklists, syncVars, queryVars, currentChecklist, pageChecklist,
                 showManagerAuth>>

vars == <<randomUUIDAvailable, deviceConfig, staff, auditLog, now,
          truePin, wrongRun, lastCall, checklists, submissions,
          currentChecklist, pageChecklist, showManagerAuth, outboxInFlight,
          attemptLog, sheetRows, callLog, error, existingSession, lastStats, lastDelay>>

----------------------------------------------------------------------------
(* Bounds *)

TimeStep == 150000
MaxTicks == 5
MaxStaff == 1
MaxNa == 1
MaxCalls == 3
MaxHomeTicks == 1
MaxCount == 3
MaxTotal == 9

----------------------------------------------------------------------------
(* Program constants: PIN_SECURITY *)

PIN_LENGTH == 4
MAX_ATTEMPTS == 3
LOCKOUT_DURATION_MS == 5 * 60 * 1000

----------------------------------------------------------------------------
(* Values *)

NoTime == -1          \* an absent (undefined) timestamp
NoNum == -1           \* an absent (undefined) number in a result
EmptyHash == <<>>     \* pinHash: ''
NoPin == <<>>         \* no PIN (input.pin undefined / '')

NoConfig == [deviceId |-> "", pinSalt |-> ""]   \* db.deviceConfig.get -> undefined

DeviceIds == {"devA"}
Salts == {"s1"}
StaffIds == {"u1", "u2", "u3"}

Digits == {"0", "1", "2", "3", "4", "5", "6", "7", "8", "9"}

PinGood == <<"4", "8", "2", "1">>
PinOther == <<"0", "0", "0", "0">>
PinShort == <<"1", "2", "3">>
PinAlpha == <<"1", "2", "3", "x">>

VerifyPins == {PinGood, PinOther}
NewPins == {PinGood, PinOther, PinShort}
SetupPins == {PinGood, PinShort, PinAlpha, NoPin}

NameAnn == <<"A", "n", "n">>
NameAnnLower == <<" ", "a", "n", "n">>
NameBob == <<"B", "o", "b">>
NameBlank == <<" ">>
NameInputs == {NameAnn, NameAnnLower, NameBob, NameBlank}

Roles == {"staff", "manager"}

----------------------------------------------------------------------------
(* String helpers: String.prototype.trim and toLowerCase *)

RECURSIVE TrimLeft(_)
TrimLeft(s) ==
    IF s = <<>> THEN s
    ELSE IF Head(s) = " " THEN TrimLeft(Tail(s)) ELSE s

RECURSIVE TrimRight(_)
TrimRight(s) ==
    IF s = <<>> THEN s
    ELSE IF s[Len(s)] = " " THEN TrimRight(SubSeq(s, 1, Len(s) - 1)) ELSE s

Trim(s) == TrimRight(TrimLeft(s))

LowerChar(c) ==
    CASE c = "A" -> "a"
      [] c = "B" -> "b"
      [] OTHER -> c

ToLowerCase(s) == [i \in 1..Len(s) |-> LowerChar(s[i])]

CeilDiv(a, b) == (a + b - 1) \div b

----------------------------------------------------------------------------
(* lib/db *)

\* generateUUID of the database module: when crypto.randomUUID is a function
\* it calls itself without end (RangeError: maximum call stack size
\* exceeded); otherwise the Math.random fallback returns an identifier.
generateUUIDThrows(ruuid) == ruuid

\* initializeDeviceConfig: returns the existing config, or creates one.
\* fresh is the pair of identifiers the fallback would produce.
initializeDeviceConfig(cfg, ruuid, fresh) ==
    IF cfg # NoConfig
    THEN [threw |-> FALSE, config |-> cfg]
    ELSE IF generateUUIDThrows(ruuid)
         THEN [threw |-> TRUE, config |-> cfg]
         ELSE [threw |-> FALSE, config |-> fresh]

FreshConfigs == [deviceId : DeviceIds, pinSalt : Salts]

\* logAuditEntry: getDeviceId, then generateUUID for the entry id, then add.
logAuditEntry(log, cfg, ruuid, fresh, action, entityId) ==
    LET ic == initializeDeviceConfig(cfg, ruuid, fresh) IN
    IF ic.threw
    THEN [threw |-> TRUE, config |-> cfg, log |-> log]
    ELSE IF generateUUIDThrows(ruuid)
         THEN [threw |-> TRUE, config |-> ic.config, log |-> log]
         ELSE [threw |-> FALSE, config |-> ic.config,
               log |-> Append(log, [action |-> action, entityId |-> entityId,
                                    deviceId |-> ic.config.deviceId])]

----------------------------------------------------------------------------
(* lib/utils/pinSecurity *)

isValidPinFormat(pin) ==
    /\ Len(pin) = PIN_LENGTH
    /\ \A i \in 1..Len(pin) : pin[i] \in Digits

\* SHA-256 over `${salt}:${managerId}:${pin}`, taken as collision free.
hashPin(salt, managerId, pin) == <<salt, managerId, pin>>

Result(success, err, lockoutRemaining, attemptsRemaining) ==
    [success |-> success, error |-> err,
     lockoutRemaining |-> lockoutRemaining,
     attemptsRemaining |-> attemptsRemaining]

\* setupManagerPin: the staff table and device config after the call and
\* the boolean it returns.
setupManagerPin(st, cfg, ruuid, fresh, managerId, pin) ==
    IF ~isValidPinFormat(pin)
    THEN [ok |-> FALSE, staff |-> st, config |-> cfg]
    ELSE LET ic == initializeDeviceConfig(cfg, ruuid, fresh) IN
         IF ic.threw
         THEN [ok |-> FALSE, staff |-> st, config |-> cfg]
         ELSE IF managerId \notin DOMAIN st
              \* Dexie update of a missing key changes nothing
              THEN [ok |-> TRUE, staff |-> st, config |-> ic.config]
              ELSE [ok |-> TRUE,
                    staff |-> [st EXCEPT ![managerId] =
                                 [@ EXCEPT !.pinHash = hashPin(ic.config.pinSalt, managerId, pin),
                                           !.failedAttempts = 0,
                                           !.lockedUntil = NoTime]],
                    config |-> ic.config]

\* The lock test of verifyManagerPin and isManagerLocked.
isLockedInverted(manager, t) ==
    manager.lockedUntil # NoTime /\ t > manager.lockedUntil

isLocked(manager, t) ==
    manager.lockedUntil # NoTime /\ t < manager.lockedUntil

\* The update written after a matching PIN: failedAttempts 0, lockedUntil
\* undefined.
resetKeepingAttempts(manager) == [manager EXCEPT !.lockedUntil = NoTime]
resetAttempts(manager) == [manager EXCEPT !.failedAttempts = 0, !.lockedUntil = NoTime]

\* verifyManagerPin: the staff table and device config after the call and
\* the PinVerificationResult it returns.  manager is the record read at the
\* start of the call (from the table as it was then, read); the later
\* branches keep using that copy while their updates go to the table st.
verifyManagerPinFrom(read, st, cfg, ruuid, fresh, managerId, pin, t) ==
    IF managerId \notin DOMAIN read \/ read[managerId].role # "manager"
    THEN [staff |-> st, config |-> cfg,
          result |-> Result(FALSE, "not_found", NoNum, NoNum)]
    ELSE
    LET manager == read[managerId] IN
    IF isLocked(manager, t)
    THEN [staff |-> st, config |-> cfg,
          result |-> Result(FALSE, "account_locked",
                            CeilDiv(manager.lockedUntil - t, 1000), NoNum)]
    ELSE
    LET st1 == IF manager.lockedUntil # NoTime
               THEN [st EXCEPT ![managerId] =
                        [@ EXCEPT !.failedAttempts = 0, !.lockedUntil = NoTime]]
               ELSE st
        ic == initializeDeviceConfig(cfg, ruuid, fresh)
    IN
    IF ic.threw
    THEN [staff |-> st1, config |-> cfg,
          result |-> Result(FALSE, "invalid_pin", NoNum, NoNum)]
    ELSE
    IF hashPin(ic.config.pinSalt, managerId, pin) = manager.pinHash
    THEN [staff |-> [st1 EXCEPT ![managerId] = resetAttempts(@)],
          config |-> ic.config,
          result |-> Result(TRUE, "none", NoNum, NoNum)]
    ELSE
    LET newFailedAttempts == manager.failedAttempts + 1
        attemptsRemaining == MAX_ATTEMPTS - newFailedAttempts
    IN
    IF newFailedAttempts >= MAX_ATTEMPTS
    THEN [staff |-> [st1 EXCEPT ![managerId] =
                        [@ EXCEPT !.failedAttempts = newFailedAttempts,
                                  !.lockedUntil = t + LOCKOUT_DURATION_MS]],
          config |-> ic.config,
          result |-> Result(FALSE, "account_locked",
                            CeilDiv(LOCKOUT_DURATION_MS, 1000), NoNum)]
    ELSE [staff |-> [st1 EXCEPT ![managerId] =
                        [@ EXCEPT !.failedAttempts = newFailedAttempts]],
          config |-> ic.config,
          result |-> Result(FALSE, "invalid_pin", NoNum, attemptsRemaining)]

\* verifyManagerPin with no other call between its read and its updates.
verifyManagerPin(st, cfg, ruuid, fresh, managerId, pin, t) ==
    verifyManagerPinFrom(st, st, cfg, ruuid, fresh, managerId, pin, t)

\* changeManagerPin goes on to the new PIN only after a successful verify.
mayChangeUnlessLocked(verification) == verification.error # "account_locked"
mayChange(verification) == verification.success

\* changeManagerPin(managerId, currentPin, newPin): the staff table and
\* device config after the call, whether it returned success, and whether
\* the verification of currentPin succeeded.
changeManagerPin(st, cfg, ruuid, fresh, managerId, currentPin, newPin, t) ==
    LET v == verifyManagerPin(st, cfg, ruuid, fresh, managerId, currentPin, t) IN
    IF ~mayChange(v.result)
    THEN [success |-> FALSE, staff |-> v.staff, config |-> v.config,
          verified |-> v.result.success]
    ELSE IF ~isValidPinFormat(newPin)
    THEN [success |-> FALSE, staff |-> v.staff, config |-> v.config,
          verified |-> v.result.success]
    ELSE LET sp == setupManagerPin(v.staff, v.config, ruuid, fresh, managerId, newPin) IN
         [success |-> sp.ok, staff |-> sp.staff, config |-> sp.config,
          verified |-> v.result.success]

----------------------------------------------------------------------------
(* hooks/useStaffRegistry *)

nameExists(st, name) ==
    LET normalizedName == ToLowerCase(Trim(name)) IN
    \E id \in DOMAIN st : ToLowerCase(st[id].name) = normalizedName

NewStaffRecord(name, role) ==
    [name |-> name, role |-> role, active |-> TRUE,
     pinHash |-> EmptyHash, failedAttempts |-> 0, lockedUntil |-> NoTime,
     deactivatedAt |-> NoTime]

\* const activeStaff = allStaff.filter((s) => s.active)
activeStaff(allStaff) == {i \in DOMAIN allStaff : allStaff[i].active}

\* addStaff called while the hook holds the list allStaff and the table holds
\* st: the tables after the call and whether a record was returned.
addStaffWith(allStaff, st, log, cfg, ruuid, fresh, id, inputName, role, pin) ==
    LET name == Trim(inputName)
        unchanged == [returned |-> FALSE, staff |-> st, log |-> log, config |-> cfg,
                      added |-> FALSE, pinSet |-> FALSE]
    IN
    IF name = <<>> THEN unchanged
    ELSE IF nameExists(allStaff, name) THEN unchanged
    ELSE IF role = "manager" /\ pin = NoPin THEN unchanged
    ELSE IF pin # NoPin /\ ~isValidPinFormat(pin) THEN unchanged
    ELSE IF ~ruuid THEN unchanged    \* crypto.randomUUID is not a function
    ELSE
    LET st1 == st @@ (id :> NewStaffRecord(name, role))
        sp == IF role = "manager" /\ pin # NoPin
              THEN setupManagerPin(st1, cfg, ruuid, fresh, id, pin)
              ELSE [ok |-> FALSE, staff |-> st1, config |-> cfg]
        la == logAuditEntry(log, sp.config, ruuid, fresh,
                            IF role = "manager" THEN "manager_added" ELSE "staff_added", id)
    IN [returned |-> ~la.threw, staff |-> sp.staff, log |-> la.log,
        config |-> la.config, added |-> TRUE, pinSet |-> sp.ok]

\* addStaff after the live query has delivered the table to the hook.
addStaff(st, log, cfg, ruuid, fresh, id, inputName, role, pin) ==
    addStaffWith(st, st, log, cfg, ruuid, fresh, id, inputName, role, pin)

\* UpdateStaffInput fields that are not given.
NoName == <<>>
NoActive == "undefined"
ActiveInputs == {NoActive, "true", "false"}

\* updateStaff(id, input) called while the hook holds the list allStaff:
\* the staff table after the call and the value returned.
updateStaff(allStaff, st, id, inputName, inputActive) ==
    LET name == Trim(inputName)
        given == inputName # NoName
        existing == {i \in DOMAIN allStaff :
                        ToLowerCase(allStaff[i].name) = ToLowerCase(name) /\ i # id}
    IN
    IF given /\ name = <<>> THEN [returned |-> FALSE, staff |-> st]
    ELSE IF given /\ existing # {} THEN [returned |-> FALSE, staff |-> st]
    ELSE IF id \notin DOMAIN st THEN [returned |-> TRUE, staff |-> st]
    ELSE [returned |-> TRUE,
          staff |-> [st EXCEPT
                        ![id].name = IF given THEN name ELSE @,
                        ![id].active = IF inputActive = NoActive THEN @
                                       ELSE inputActive = "true"]]

\* deactivateStaff(id, deactivatedBy): the tables after the call and the
\* value returned.
reactivateStaff(st, log, cfg, ruuid, fresh, id) ==
    IF id \notin DOMAIN st
    THEN [returned |-> FALSE, staff |-> st, log |-> log, config |-> cfg]
    ELSE
    LET la == logAuditEntry(log, cfg, ruuid, fresh, "staff_reactivated", id) IN
    [returned |-> ~la.threw,
     staff |-> [st EXCEPT ![id].active = TRUE, ![id].deactivatedAt = NoTime],
     log |-> la.log, config |-> la.config]

deactivateStaff(st, log, cfg, ruuid, fresh, id, t) ==
    IF id \notin DOMAIN st
    THEN [returned |-> FALSE, staff |-> st, log |-> log, config |-> cfg]
    ELSE
    LET la == logAuditEntry(log, cfg, ruuid, fresh, "staff_deactivated", id) IN
    [returned |-> ~la.threw,
     staff |-> [st EXCEPT ![id].active = FALSE, ![id].deactivatedAt = t],
     log |-> la.log, config |-> la.config]

----------------------------------------------------------------------------
(* lib/constants/templates and types/checklist *)

TemplateIds == {"pass_opening", "floor_opening", "closing"}

\* The totalTasks field declared by each template.
PASS_OPENING_TOTAL_TASKS == 32
FLOOR_OPENING_TOTAL_TASKS == 30
CLOSING_TOTAL_TASKS == 38

\* The number of tasks listed in the sections of each template.
PASS_OPENING_TASK_IDS == 34
FLOOR_OPENING_TASK_IDS == 35
CLOSING_TASK_IDS == 49

\* getTemplate(id).totalTasks
totalTasksOf(templateId) ==
    CASE templateId = "pass_opening" -> PASS_OPENING_TOTAL_TASKS
      [] templateId = "floor_opening" -> FLOOR_OPENING_TOTAL_TASKS
      [] templateId = "closing" -> CLOSING_TOTAL_TASKS

\* getAllTaskIds(getTemplate(id)).length
getAllTaskIds(templateId) ==
    CASE templateId = "pass_opening" -> PASS_OPENING_TASK_IDS
      [] templateId = "floor_opening" -> FLOOR_OPENING_TASK_IDS
      [] templateId = "closing" -> CLOSING_TASK_IDS

TaskStatuses == {"done", "not_done", "na"}

\* A task map is kept as the bag of the statuses of its entries.
AllNotDone(n) == [s \in {"not_done"} |-> n]

\* { ...tasks, [taskId]: { taskId, status } } for a task whose entry had
\* status old.
SetTask(tasks, old, new) ==
    IF old = new THEN tasks
    ELSE (tasks (-) SetToBag({old})) (+) SetToBag({new})

\* Math.round(n / d) for n >= 0, d > 0
MathFloor(n, d) == n \div d
MathRound(n, d) == (2 * n + d) \div (2 * d)

calculateCompletionStats(tasks, totalTasks) ==
    LET doneCount == CopiesIn("done", tasks)
        notDoneCount == CopiesIn("not_done", tasks)
        naCount == CopiesIn("na", tasks)
        applicableTasks == totalTasks - naCount
    IN [doneCount |-> doneCount,
        notDoneCount |-> notDoneCount,
        naCount |-> naCount,
        completionPercentage |->
            IF applicableTasks > 0 THEN MathRound(doneCount * 100, applicableTasks)
            ELSE 100]

\* useSessionStore's error: null, or the message of what was thrown.
NoError == ""
StackOverflow == "Maximum call stack size exceeded"
NoRandomUUID == "crypto.randomUUID is not a function"
NoStartedBy == "Cannot read properties of undefined"
NotFound == "Checklist not found"
WrongDevice == "This checklist belongs to another device"
NoActiveChecklist == "No active checklist"

\* What checkForActiveSessions returns: null, or an ActiveSession.
NoSession ==
    [templateId |-> "", found |-> FALSE, checklistId |-> "", deviceId |-> "",
     isOwnDevice |-> FALSE, active |-> <<>>]

NoStats ==
    [tasks |-> EmptyBag, totalTasks |-> 0, doneCount |-> 0, notDoneCount |-> 0,
     naCount |-> 0, completionPercentage |-> 0]

NoStaffRef == ""
NoManager == ""
NoForceClose == [manager |-> [id |-> "", role |-> ""], closedAt |-> NoTime]
NoChecklist ==
    [id |-> "", templateId |-> "", status |-> "", startedBy |-> NoStaffRef,
     deviceId |-> "", tasks |-> EmptyBag, completionPercentage |-> 0,
     doneCount |-> 0, notDoneCount |-> 0, naCount |-> 0, totalTasks |-> 0,
     lastModifiedAt |-> NoTime, submittedAt |-> NoTime, approvedAt |-> NoTime,
     manager |-> NoManager, forceClosedBy |-> NoForceClose]

ChecklistIds == {"c1"}

\* The ids crypto.randomUUID() / generateUUID() can return: not yet in use.
FreshChecklistIds(cl) == ChecklistIds \ DOMAIN cl

\* The ids crypto.randomUUID() can return in startChecklist: not yet in use.
StoreChecklistIds == {"s1"}
FreshStoreChecklistIds(cl) == StoreChecklistIds \ DOMAIN cl

\* The checklist ids a caller can pass.
AllChecklistIds == ChecklistIds \cup StoreChecklistIds

\* db.checklists.put(checklist)
put(cl, checklist) ==
    [i \in DOMAIN cl \cup {checklist.id} |->
        IF i = checklist.id THEN checklist ELSE cl[i]]

\* The checklists of a template with status in_progress.
inProgressOf(cl, templateId) ==
    {i \in DOMAIN cl : cl[i].templateId = templateId /\ cl[i].status = "in_progress"}

\* existingChecklists.sort(by lastModifiedAt, descending)[0]: any of the
\* most recently modified ones.
mostRecent(cl, ids) ==
    {i \in ids : \A j \in ids : cl[j].lastModifiedAt <= cl[i].lastModifiedAt}

----------------------------------------------------------------------------
(* types/sync *)

MAX_RETRIES == 5
BASE_RETRY_DELAY_MS == 1000
MAX_RETRY_DELAY_MS == 60000
BACKOFF_MULTIPLIER == 2

\* Math.pow(base, exponent) for a natural exponent
RECURSIVE MathPow(_, _)
MathPow(base, exponent) ==
    IF exponent = 0 THEN 1 ELSE base * MathPow(base, exponent - 1)

MathMin(a, b) == IF a < b THEN a ELSE b

calculateRetryDelayUncapped(retryCount) ==
    BASE_RETRY_DELAY_MS * MathPow(BACKOFF_MULTIPLIER, retryCount)
calculateRetryDelay(retryCount) ==
    LET delay == BASE_RETRY_DELAY_MS * MathPow(BACKOFF_MULTIPLIER, retryCount) IN
    MathMin(delay, MAX_RETRY_DELAY_MS)

SubmissionIds == {"sub1"}

\* The steps of the pipeline that call the external system.
NetworkSteps == {"sheets_write", "pdf_upload", "sheets_update"}

NoAttempt ==
    [id |-> "", status |-> "", pdfStatus |-> "", calls |-> <<>>,
     ended |-> "none", resumed |-> FALSE, inFlight |-> 0]

----------------------------------------------------------------------------
(* State machine *)

\* History record of a handler call: the staff table before and after, the
\* time of the call, the length of the wrong-PIN run it completes, its result.
Call(op, id, pin, pre, post, t, run, result) ==
    [op |-> op, id |-> id, pin |-> pin, pre |-> pre, post |-> post, t |-> t,
     run |-> run, result |-> result]

Init ==
    /\ randomUUIDAvailable \in BOOLEAN
    /\ deviceConfig = NoConfig
    /\ staff = <<>>
    /\ auditLog = <<>>
    /\ now = 0
    /\ truePin = [id \in StaffIds |-> NoPin]
    /\ wrongRun = [id \in StaffIds |-> 0]
    /\ lastCall = Call("none", "", NoPin, <<>>, <<>>, 0, 0,
                        Result(FALSE, "none", NoNum, NoNum))
    /\ checklists = <<>>
    /\ submissions = <<>>
    /\ currentChecklist = NoChecklist
    /\ pageChecklist = NoChecklist
    /\ showManagerAuth = FALSE
    /\ outboxInFlight = {}
    /\ attemptLog = NoAttempt
    /\ sheetRows = <<>>
    /\ callLog = <<>>
    /\ error = NoError
    /\ existingSession = NoSession
    /\ lastStats = NoStats
    /\ lastDelay = <<>>

\* The browser is upgraded to one that has crypto.randomUUID; IndexedDB is kept.
BrowserUpgrade ==
    /\ ~randomUUIDAvailable
    /\ randomUUIDAvailable' = TRUE
    /\ UNCHANGED <<deviceConfig, staff, auditLog, now, truePin, wrongRun, lastCall>>
    /\ UNCHANGED sessionVars

\* Date.now() advances.
Tick ==
    /\ now < MaxTicks * TimeStep
    /\ now' = now + TimeStep
    /\ UNCHANGED <<randomUUIDAvailable, deviceConfig, staff, auditLog,
                   truePin, wrongRun, lastCall>>
    /\ UNCHANGED sessionVars

\* getDeviceId(), as called when a page loads.
GetDeviceId ==
    /\ \E fresh \in FreshConfigs :
         LET ic == initializeDeviceConfig(deviceConfig, randomUUIDAvailable, fresh) IN
         /\ deviceConfig' = ic.config
         /\ lastCall' = Call("getDeviceId", "", NoPin, staff, staff, now, 0,
                              Result(~ic.threw, "none", NoNum, NoNum))
    /\ UNCHANGED <<randomUUIDAvailable, staff, auditLog, now, truePin, wrongRun>>
    /\ UNCHANGED sessionVars

\* Settings page: handleAddStaff -> addStaff, with the inputs drawn from the
\* given sets.
AddStaffUpTo(max, names, roles, pins) ==
    /\ Cardinality(DOMAIN staff) < max
    /\ \E inputName \in names, role \in roles, pin \in pins,
          fresh \in FreshConfigs :
         LET id == CHOOSE i \in StaffIds : i \notin DOMAIN staff
             r == addStaff(staff, auditLog, deviceConfig, randomUUIDAvailable,
                           fresh, id, inputName, role, pin)
         IN
         /\ staff' = r.staff
         /\ auditLog' = r.log
         /\ deviceConfig' = r.config
         /\ truePin' = IF r.pinSet THEN [truePin EXCEPT ![id] = pin] ELSE truePin
         /\ lastCall' = Call("addStaff", id, pin, staff, r.staff, now, 0,
                              Result(r.returned, "none", NoNum, NoNum))
    /\ UNCHANGED <<randomUUIDAvailable, now, wrongRun>>
    /\ UNCHANGED sessionVars

AddStaffFrom(names, roles, pins) == AddStaffUpTo(MaxStaff, names, roles, pins)

AddStaff == AddStaffFrom(NameInputs, Roles, SetupPins)

\* The settings page of a restaurant with up to MaxRegistry staff records.
MaxRegistry == 2
RegistryNames == {NameAnn, NameAnnLower, NameBob}
RegistryAddStaff == AddStaffUpTo(MaxRegistry, RegistryNames, Roles, {PinGood})

\* Two addStaff calls made before the live query has delivered the first
\* one's write: both check the name against the list the hook held when the
\* first call started.
AddStaffConcurrent ==
    /\ Cardinality(DOMAIN staff) + 2 <= MaxRegistry
    /\ \E name1 \in RegistryNames, name2 \in RegistryNames, role \in Roles,
          fresh \in FreshConfigs :
         LET allStaff == staff
             id1 == CHOOSE i \in StaffIds : i \notin DOMAIN staff
             r1 == addStaffWith(allStaff, staff, auditLog, deviceConfig,
                                randomUUIDAvailable, fresh, id1, name1, role, PinGood)
             id2 == CHOOSE i \in StaffIds : i \notin DOMAIN r1.staff
             r2 == addStaffWith(allStaff, r1.staff, r1.log, r1.config,
                                randomUUIDAvailable, fresh, id2, name2, role, PinGood)
         IN
         /\ staff' = r2.staff
         /\ auditLog' = r2.log
         /\ deviceConfig' = r2.config
         /\ truePin' = [id \in StaffIds |->
                           IF (id = id1 /\ r1.pinSet) \/ (id = id2 /\ r2.pinSet)
                           THEN PinGood ELSE truePin[id]]
         /\ lastCall' = Call("addStaff", id2, PinGood, staff, r2.staff, now, 0,
                              Result(r2.returned, "none", NoNum, NoNum))
    /\ UNCHANGED <<randomUUIDAvailable, now, wrongRun>>
    /\ UNCHANGED sessionVars

\* Settings page: updateStaff(id, input) after the list has refreshed.
UpdateStaff ==
    /\ \E id \in StaffIds, inputName \in RegistryNames \cup {NoName},
          inputActive \in ActiveInputs :
         LET r == updateStaff(staff, staff, id, inputName, inputActive) IN
         /\ staff' = r.staff
         /\ lastCall' = Call("updateStaff", id, NoPin, staff, r.staff, now, 0,
                              Result(r.returned, "none", NoNum, NoNum))
    /\ UNCHANGED <<randomUUIDAvailable, deviceConfig, auditLog, now, truePin, wrongRun>>
    /\ UNCHANGED sessionVars

\* Settings page: deactivateStaff(id, deactivatedBy)
DeactivateStaff ==
    /\ \E id \in StaffIds, fresh \in FreshConfigs :
         LET r == deactivateStaff(staff, auditLog, deviceConfig, randomUUIDAvailable,
                                  fresh, id, now)
         IN
         /\ staff' = r.staff
         /\ auditLog' = r.log
         /\ deviceConfig' = r.config
         /\ lastCall' = Call("deactivateStaff", id, NoPin, staff, r.staff, now, 0,
                              Result(r.returned, "none", NoNum, NoNum))
    /\ UNCHANGED <<randomUUIDAvailable, now, truePin, wrongRun>>
    /\ UNCHANGED sessionVars

\* Settings page: reactivateStaff(id)
ReactivateStaff ==
    /\ \E id \in StaffIds, fresh \in FreshConfigs :
         LET r == reactivateStaff(staff, auditLog, deviceConfig, randomUUIDAvailable,
                                  fresh, id)
         IN
         /\ staff' = r.staff
         /\ auditLog' = r.log
         /\ deviceConfig' = r.config
         /\ lastCall' = Call("reactivateStaff", id, NoPin, staff, r.staff, now, 0,
                              Result(r.returned, "none", NoNum, NoNum))
    /\ UNCHANGED <<randomUUIDAvailable, now, truePin, wrongRun>>
    /\ UNCHANGED sessionVars

\* A pin is wrong for a manager when it is not the PIN whose digest is stored.
WrongPin(id, pin) == pin # truePin[id]

Unlocked0(st, id) ==
    /\ id \in DOMAIN st
    /\ st[id].role = "manager"
    /\ st[id].lockedUntil = NoTime
    /\ st[id].failedAttempts = 0

NextWrongRun(id, pin) ==
    IF ~WrongPin(id, pin) THEN 0
    ELSE IF wrongRun[id] \in 1..(MAX_ATTEMPTS - 1) THEN wrongRun[id] + 1
    ELSE IF Unlocked0(staff, id) THEN 1 ELSE 0

\* verifyManagerPin(managerId, pin)
VerifyManagerPin ==
    /\ \E managerId \in StaffIds, pin \in VerifyPins, fresh \in FreshConfigs :
         LET r == verifyManagerPin(staff, deviceConfig, randomUUIDAvailable,
                                   fresh, managerId, pin, now)
         IN
         /\ staff' = r.staff
         /\ deviceConfig' = r.config
         /\ wrongRun' = [wrongRun EXCEPT ![managerId] = NextWrongRun(managerId, pin)]
         /\ lastCall' = Call("verify", managerId, pin, staff, r.staff, now,
                              NextWrongRun(managerId, pin), r.result)
    /\ UNCHANGED <<randomUUIDAvailable, auditLog, now, truePin>>
    /\ UNCHANGED sessionVars

\* The call compared the digest of the PIN with the stored one and found a
\* mismatch (read is the staff table the call read the manager from).
mismatchEvaluated(read, managerId, result, t) ==
    /\ managerId \in DOMAIN read
    /\ \/ result.error = "invalid_pin" /\ result.attemptsRemaining # NoNum
       \/ result.error = "account_locked" /\ ~isLocked(read[managerId], t)

\* History record of two overlapping verify calls: a Call with both PINs and
\* the number of mismatches the two calls evaluated.
ConcurrentCall(id, pin1, pin2, pre, post, t, run, result, mismatches) ==
    [op |-> "verifyConcurrent", id |-> id, pin |-> pin2, pre |-> pre, post |-> post,
     t |-> t, run |-> run, result |-> result, firstPin |-> pin1,
     mismatches |-> mismatches]

\* Two verifyManagerPin calls for one manager that overlap: both read the
\* manager (db.staff.get) before either has written, then the first and the
\* second complete in that order.
VerifyManagerPinConcurrent ==
    /\ \E managerId \in StaffIds, pin1 \in VerifyPins, pin2 \in VerifyPins,
          fresh \in FreshConfigs :
         LET r1 == verifyManagerPinFrom(staff, staff, deviceConfig, randomUUIDAvailable,
                                        fresh, managerId, pin1, now)
             r2 == verifyManagerPinFrom(staff, r1.staff, r1.config, randomUUIDAvailable,
                                        fresh, managerId, pin2, now)
             m1 == IF mismatchEvaluated(staff, managerId, r1.result, now) THEN 1 ELSE 0
             m2 == IF mismatchEvaluated(staff, managerId, r2.result, now) THEN 1 ELSE 0
             run1 == NextWrongRun(managerId, pin1)
             run2 == IF ~WrongPin(managerId, pin2) THEN 0
                     ELSE IF run1 \in 1..(MAX_ATTEMPTS - 1) THEN run1 + 1
                     ELSE IF Unlocked0(r1.staff, managerId) THEN 1 ELSE 0
         IN
         /\ staff' = r2.staff
         /\ deviceConfig' = r2.config
         /\ wrongRun' = [wrongRun EXCEPT ![managerId] = run2]
         /\ lastCall' = ConcurrentCall(managerId, pin1, pin2, staff, r2.staff, now,
                                       run2, r2.result, m1 + m2)
    /\ UNCHANGED <<randomUUIDAvailable, auditLog, now, truePin>>
    /\ UNCHANGED sessionVars

\* History record of a changeManagerPin call: a Call with the new PIN, the
\* PIN whose digest was stored before the call, and whether the verification
\* inside the call succeeded.
ChangeCall(id, currentPin, newPin, pre, post, t, run, success, verified, oldPin) ==
    [op |-> "changePin", id |-> id, pin |-> currentPin, pre |-> pre, post |-> post,
     t |-> t, run |-> run,
     result |-> Result(success, "none", NoNum, NoNum),
     newPin |-> newPin, verified |-> verified, oldPin |-> oldPin]

\* changeManagerPin(managerId, currentPin, newPin)
ChangeManagerPin ==
    /\ \E managerId \in StaffIds, currentPin \in VerifyPins, newPin \in NewPins,
          fresh \in FreshConfigs :
         LET r == changeManagerPin(staff, deviceConfig, randomUUIDAvailable,
                                   fresh, managerId, currentPin, newPin, now)
             pinSet == r.success /\ managerId \in DOMAIN staff
         IN
         /\ staff' = r.staff
         /\ deviceConfig' = r.config
         /\ truePin' = IF pinSet THEN [truePin EXCEPT ![managerId] = newPin] ELSE truePin
         /\ wrongRun' = [wrongRun EXCEPT ![managerId] =
                            NextWrongRun(managerId, currentPin)]
         /\ lastCall' = ChangeCall(managerId, currentPin, newPin, staff, r.staff, now,
                                   NextWrongRun(managerId, currentPin), r.success,
                                   r.verified, truePin[managerId])
    /\ UNCHANGED <<randomUUIDAvailable, auditLog, now>>
    /\ UNCHANGED sessionVars

\* setupManagerPin(managerId, pin)
SetupManagerPin ==
    /\ \E managerId \in StaffIds, pin \in SetupPins, fresh \in FreshConfigs :
         LET r == setupManagerPin(staff, deviceConfig, randomUUIDAvailable,
                                  fresh, managerId, pin)
             pinSet == r.ok /\ managerId \in DOMAIN staff
         IN
         /\ staff' = r.staff
         /\ deviceConfig' = r.config
         /\ truePin' = IF pinSet THEN [truePin EXCEPT ![managerId] = pin] ELSE truePin
         /\ wrongRun' = IF pinSet THEN [wrongRun EXCEPT ![managerId] = 0] ELSE wrongRun
         /\ lastCall' = Call("setupPin", managerId, pin, staff, r.staff, now, 0,
                              Result(r.ok, "none", NoNum, NoNum))
    /\ UNCHANGED <<randomUUIDAvailable, auditLog, now>>
    /\ UNCHANGED sessionVars

NextPin ==
    \/ BrowserUpgrade
    \/ Tick
    \/ GetDeviceId
    \/ AddStaff
    \/ VerifyManagerPin

SpecPin == Init /\ [][NextPin]_vars

----------------------------------------------------------------------------
(* app/checklist/[templateId]/page: ChecklistPage *)

activeManagers(st) == {i \in DOMAIN st : st[i].role = "manager" /\ st[i].active}

isSingleStaffTemplate(templateId) == templateId = "pass_opening"

\* loadData, branch "Create new checklist"
newChecklist(id, templateId, deviceId, t) ==
    [NoChecklist EXCEPT
        !.id = id,
        !.templateId = templateId,
        !.status = "in_progress",
        !.deviceId = deviceId,
        !.tasks = AllNotDone(getAllTaskIds(templateId)),
        !.completionPercentage = 0,
        !.doneCount = 0,
        !.notDoneCount = getAllTaskIds(templateId),
        !.naCount = 0,
        !.totalTasks = totalTasksOf(templateId),
        !.lastModifiedAt = t]

\* ChecklistPage mounts without ?resume: the most recent in_progress
\* checklist of the template is shown, or a new one is created.
LoadData ==
    /\ pageChecklist = NoChecklist
    /\ \E templateId \in TemplateIds, fresh \in FreshConfigs :
         LET existing == inProgressOf(checklists, templateId) IN
         IF existing # {}
         THEN /\ \E i \in mostRecent(checklists, existing) :
                   pageChecklist' = checklists[i]
              /\ UNCHANGED <<checklists, deviceConfig>>
         ELSE LET ic == initializeDeviceConfig(deviceConfig, randomUUIDAvailable, fresh) IN
              /\ deviceConfig' = ic.config
              /\ IF ic.threw
                 THEN UNCHANGED <<checklists, pageChecklist>>
                 ELSE \E id \in FreshChecklistIds(checklists) :
                        LET c == newChecklist(id, templateId, ic.config.deviceId, now) IN
                        /\ checklists' = put(checklists, c)
                        /\ pageChecklist' = c
    /\ showManagerAuth' = FALSE
    /\ UNCHANGED <<randomUUIDAvailable, staff, auditLog, now, truePin, wrongRun,
                   lastCall, syncVars, queryVars, currentChecklist>>

\* ChecklistPage mounts with ?resume=resumeId
LoadDataResume ==
    /\ pageChecklist = NoChecklist
    /\ \E resumeId \in DOMAIN checklists :
         pageChecklist' = checklists[resumeId]
    /\ showManagerAuth' = FALSE
    /\ UNCHANGED <<randomUUIDAvailable, deviceConfig, staff, auditLog, now, truePin,
                   wrongRun, lastCall, checklists, syncVars, queryVars, currentChecklist>>

\* handleTaskUpdate(taskId, status) for a task whose entry has status old
handleTaskUpdate(checklist, old, status, t) ==
    LET updatedTasks == SetTask(checklist.tasks, old, status)
        stats == calculateCompletionStats(updatedTasks, checklist.totalTasks)
    IN [checklist EXCEPT
           !.tasks = updatedTasks,
           !.doneCount = stats.doneCount,
           !.notDoneCount = stats.notDoneCount,
           !.naCount = stats.naCount,
           !.completionPercentage = stats.completionPercentage,
           !.lastModifiedAt = t]

\* The inputs of a task update: a task of the map (by its current status)
\* and the new status, with at most MaxNa tasks marked na.
TaskInputOk(tasks, old, status) ==
    /\ BagIn(old, tasks)
    /\ (status = "na" /\ old # "na") => CopiesIn("na", tasks) < MaxNa

\* A TaskRow's status button; the rows are disabled once approved and are
\* covered by the manager modal while it is open.
HandleTaskUpdate ==
    /\ pageChecklist # NoChecklist
    /\ pageChecklist.status # "approved"
    /\ ~showManagerAuth
    /\ \E old \in TaskStatuses, status \in TaskStatuses :
         /\ TaskInputOk(pageChecklist.tasks, old, status)
         /\ LET updatedChecklist == handleTaskUpdate(pageChecklist, old, status, now) IN
            /\ checklists' = put(checklists, updatedChecklist)
            /\ pageChecklist' = updatedChecklist
    /\ UNCHANGED <<randomUUIDAvailable, deviceConfig, staff, auditLog, now, truePin,
                   wrongRun, lastCall, syncVars, queryVars, currentChecklist,
                   showManagerAuth>>

\* The 30 s auto-save interval: writes the page's copy.
AutoSave ==
    /\ pageChecklist # NoChecklist
    /\ checklists' = put(checklists, [pageChecklist EXCEPT !.lastModifiedAt = now])
    /\ UNCHANGED <<randomUUIDAvailable, deviceConfig, staff, auditLog, now, truePin,
                   wrongRun, lastCall, syncVars, queryVars, currentChecklist, pageChecklist,
                   showManagerAuth>>

\* handleBack, and handleBeforeUnload when the tab is closed: the page's
\* copy is written and the page goes away.
HandleBack ==
    /\ pageChecklist # NoChecklist
    /\ checklists' = put(checklists, [pageChecklist EXCEPT !.lastModifiedAt = now])
    /\ pageChecklist' = NoChecklist
    /\ showManagerAuth' = FALSE
    /\ UNCHANGED <<randomUUIDAvailable, deviceConfig, staff, auditLog, now, truePin,
                   wrongRun, lastCall, syncVars, queryVars, currentChecklist>>

isComplete(checklist) == checklist.completionPercentage = 100

\* The submit button is enabled, with completedByName as typed.
submitEnabled(checklist, completedByName) ==
    /\ isComplete(checklist)
    /\ isSingleStaffTemplate(checklist.templateId) => Trim(completedByName) # <<>>

\* handleSubmit: the footer button "Submit for Manager Review"
HandleSubmit ==
    /\ pageChecklist # NoChecklist
    /\ pageChecklist.status # "approved"
    /\ ~showManagerAuth
    /\ \E completedByName \in NameInputs : submitEnabled(pageChecklist, completedByName)
    /\ showManagerAuth' = TRUE
    /\ UNCHANGED <<randomUUIDAvailable, deviceConfig, staff, auditLog, now, truePin,
                   wrongRun, lastCall, checklists, syncVars, queryVars, currentChecklist,
                   pageChecklist>>

\* ManagerAuthModal onClose
CloseManagerAuth ==
    /\ showManagerAuth
    /\ showManagerAuth' = FALSE
    /\ UNCHANGED <<randomUUIDAvailable, deviceConfig, staff, auditLog, now, truePin,
                   wrongRun, lastCall, checklists, syncVars, queryVars, currentChecklist,
                   pageChecklist>>

handleManagerApprove(checklist, managerId, t) ==
    [checklist EXCEPT
        !.status = "approved",
        !.manager = managerId,
        !.approvedAt = t,
        !.lastModifiedAt = t]

\* ManagerAuthModal.handleVerifyPin treats every result but success as a
\* failure.
verifySucceededUnlessLocked(result) == result.error # "account_locked"
verifySucceeded(result) == result.success

\* ManagerAuthModal.handleVerifyPin -> verifyManagerPin -> onSuccess =
\* handleManagerApprove
HandleVerifyPin ==
    /\ pageChecklist # NoChecklist
    /\ showManagerAuth
    /\ \E managerId \in activeManagers(staff), pin \in VerifyPins, fresh \in FreshConfigs :
         LET r == verifyManagerPin(staff, deviceConfig, randomUUIDAvailable,
                                   fresh, managerId, pin, now)
             updatedChecklist == handleManagerApprove(pageChecklist, managerId, now)
         IN
         /\ staff' = r.staff
         /\ deviceConfig' = r.config
         /\ wrongRun' = [wrongRun EXCEPT ![managerId] = NextWrongRun(managerId, pin)]
         /\ lastCall' = Call("verify", managerId, pin, staff, r.staff, now,
                              NextWrongRun(managerId, pin), r.result)
         /\ IF verifySucceeded(r.result)
            THEN /\ checklists' = put(checklists, updatedChecklist)
                 /\ pageChecklist' = NoChecklist      \* router.push('/')
                 /\ showManagerAuth' = FALSE
            ELSE UNCHANGED <<checklists, pageChecklist, showManagerAuth>>
    /\ UNCHANGED <<randomUUIDAvailable, auditLog, now, truePin, syncVars, queryVars,
                   currentChecklist>>

----------------------------------------------------------------------------
(* lib/stores/useSessionStore *)

\* The checklist startChecklist builds before it is saved.
startChecklist(id, templateId, staffRef, deviceId, t) ==
    LET tasks == AllNotDone(getAllTaskIds(templateId))
        stats == calculateCompletionStats(tasks, totalTasksOf(templateId))
    IN [NoChecklist EXCEPT
           !.id = id,
           !.templateId = templateId,
           !.status = "in_progress",
           !.startedBy = staffRef,
           !.deviceId = deviceId,
           !.tasks = tasks,
           !.completionPercentage = stats.completionPercentage,
           !.doneCount = stats.doneCount,
           !.notDoneCount = stats.notDoneCount,
           !.naCount = stats.naCount,
           !.totalTasks = totalTasksOf(templateId),
           !.lastModifiedAt = t]

\* startChecklist(templateId, staff), as called by the home page with a
\* member of the staff list.
StartChecklist ==
    /\ \E templateId \in TemplateIds, staffRef \in DOMAIN staff, fresh \in FreshConfigs :
         LET ic == initializeDeviceConfig(deviceConfig, randomUUIDAvailable, fresh) IN
         IF ic.threw \/ ~randomUUIDAvailable
         THEN \* getDeviceId() or crypto.randomUUID() throws
              /\ deviceConfig' = ic.config
              /\ error' = IF ic.threw THEN StackOverflow ELSE NoRandomUUID
              /\ UNCHANGED <<checklists, auditLog, currentChecklist>>
         ELSE \E id \in FreshStoreChecklistIds(checklists) :
                LET checklist == startChecklist(id, templateId, staffRef,
                                                ic.config.deviceId, now)
                    la == logAuditEntry(auditLog, ic.config, randomUUIDAvailable, fresh,
                                        "checklist_started", id)
                IN
                /\ checklists' = put(checklists, checklist)
                /\ deviceConfig' = la.config
                /\ auditLog' = la.log
                /\ currentChecklist' = IF la.threw THEN currentChecklist ELSE checklist
                /\ error' = IF la.threw THEN StackOverflow ELSE NoError
    /\ UNCHANGED <<randomUUIDAvailable, staff, now, truePin, wrongRun, lastCall,
                   syncVars, existingSession, lastStats, lastDelay, pageChecklist,
                   showManagerAuth>>

\* resumeChecklist(checklistId)
resumeChecklist(cl, checklistId, ic, current) ==
    IF checklistId \notin DOMAIN cl
    THEN [currentChecklist |-> current, error |-> NotFound]
    ELSE IF ic.threw
    THEN [currentChecklist |-> current, error |-> StackOverflow]
    ELSE IF cl[checklistId].deviceId # ic.config.deviceId
    THEN [currentChecklist |-> current, error |-> WrongDevice]
    ELSE [currentChecklist |-> cl[checklistId], error |-> NoError]

ResumeChecklist ==
    /\ \E checklistId \in AllChecklistIds, fresh \in FreshConfigs :
         LET ic == initializeDeviceConfig(deviceConfig, randomUUIDAvailable, fresh)
             r == resumeChecklist(checklists, checklistId, ic, currentChecklist)
         IN
         /\ deviceConfig' = IF checklistId \in DOMAIN checklists THEN ic.config
                            ELSE deviceConfig
         /\ currentChecklist' = r.currentChecklist
         /\ error' = r.error
    /\ UNCHANGED <<randomUUIDAvailable, staff, auditLog, now, truePin, wrongRun,
                   lastCall, checklists, syncVars, existingSession, lastStats, lastDelay,
                   pageChecklist, showManagerAuth>>

\* updateTask(taskId, status) for a task whose entry has status old
updateTaskKeepingDoneCount(checklist, old, status, t) ==
    LET updatedTasks == SetTask(checklist.tasks, old, status)
        stats == calculateCompletionStats(updatedTasks, checklist.totalTasks)
    IN [checklist EXCEPT
           !.tasks = updatedTasks,
           !.notDoneCount = stats.notDoneCount,
           !.naCount = stats.naCount,
           !.completionPercentage = stats.completionPercentage,
           !.lastModifiedAt = t]
updateTask(checklist, old, status, t) ==
    LET updatedTasks == SetTask(checklist.tasks, old, status)
        stats == calculateCompletionStats(updatedTasks, checklist.totalTasks)
    IN [checklist EXCEPT
           !.tasks = updatedTasks,
           !.doneCount = stats.doneCount,
           !.notDoneCount = stats.notDoneCount,
           !.naCount = stats.naCount,
           !.completionPercentage = stats.completionPercentage,
           !.lastModifiedAt = t]

\* The note argument of updateTask: undefined, or a text.
NoNote == ""
NoteInputs == {NoNote, "why"}

\* updateTask(taskId, status, note) for a task whose entry has status old.
\* The note goes into the task's entry; no branch of the code reads it.
UpdateTaskCall(old, status, note) ==
    /\ IF currentChecklist = NoChecklist
       THEN /\ error' = NoActiveChecklist
            /\ UNCHANGED <<checklists, currentChecklist>>
       ELSE /\ TaskInputOk(currentChecklist.tasks, old, status)
            /\ LET updatedChecklist == updateTask(currentChecklist, old, status, now) IN
               /\ checklists' = put(checklists, updatedChecklist)
               /\ currentChecklist' = updatedChecklist
            /\ UNCHANGED error
    /\ note \in NoteInputs

UpdateTask ==
    /\ \E old \in TaskStatuses, status \in TaskStatuses, note \in NoteInputs :
         UpdateTaskCall(old, status, note)
    /\ UNCHANGED <<randomUUIDAvailable, deviceConfig, staff, auditLog, now, truePin,
                   wrongRun, lastCall, syncVars, existingSession, lastStats, lastDelay,
                   pageChecklist, showManagerAuth>>

\* The task map has two different tasks whose entries have the statuses
\* old1 and old2.
TwoTasks(tasks, old1, old2) ==
    IF old1 = old2 THEN CopiesIn(old1, tasks) >= 2
    ELSE BagIn(old1, tasks) /\ BagIn(old2, tasks)

\* Two updateTask calls for different tasks that overlap: the second reads
\* currentChecklist (get()) before the first has passed its
\* await db.checklists.put and set the store; both then write, the first
\* before the second.
UpdateTaskOverlap(old1, status1, old2, status2) ==
    /\ currentChecklist # NoChecklist
    /\ TwoTasks(currentChecklist.tasks, old1, old2)
    /\ TaskInputOk(currentChecklist.tasks, old1, status1)
    /\ TaskInputOk(currentChecklist.tasks, old2, status2)
    /\ LET first == updateTask(currentChecklist, old1, status1, now)
           second == updateTask(currentChecklist, old2, status2, now)
       IN
       /\ checklists' = put(put(checklists, first), second)
       /\ currentChecklist' = second
    /\ UNCHANGED error

UpdateTaskConcurrent ==
    /\ \E old1 \in TaskStatuses, status1 \in TaskStatuses,
          old2 \in TaskStatuses, status2 \in TaskStatuses :
         UpdateTaskOverlap(old1, status1, old2, status2)
    /\ UNCHANGED <<randomUUIDAvailable, deviceConfig, staff, auditLog, now, truePin,
                   wrongRun, lastCall, syncVars, existingSession, lastStats, lastDelay,
                   pageChecklist, showManagerAuth>>

\* submitForReview(): the checklist is written, then the audit entry is
\* built from currentChecklist.startedBy.id and logged, then the store's
\* copy is replaced.
SubmitForReview ==
    /\ IF currentChecklist = NoChecklist
       THEN /\ error' = NoActiveChecklist
            /\ UNCHANGED <<checklists, deviceConfig, auditLog, currentChecklist>>
       ELSE \E fresh \in FreshConfigs :
         LET updatedChecklist == [currentChecklist EXCEPT
                                     !.status = "pending_review",
                                     !.submittedAt = now,
                                     !.lastModifiedAt = now]
             la == logAuditEntry(auditLog, deviceConfig, randomUUIDAvailable, fresh,
                                 "checklist_submitted", currentChecklist.id)
         IN
         /\ checklists' = put(checklists, updatedChecklist)
         /\ IF currentChecklist.startedBy = NoStaffRef
            THEN /\ error' = NoStartedBy
                 /\ UNCHANGED <<deviceConfig, auditLog, currentChecklist>>
            ELSE /\ deviceConfig' = la.config
                 /\ auditLog' = la.log
                 /\ currentChecklist' = IF la.threw THEN currentChecklist
                                        ELSE updatedChecklist
                 /\ error' = IF la.threw THEN StackOverflow ELSE error
    /\ UNCHANGED <<randomUUIDAvailable, staff, now, truePin, wrongRun, lastCall,
                   syncVars, existingSession, lastStats, lastDelay, pageChecklist,
                   showManagerAuth>>

\* clearSession()
ClearSession ==
    /\ currentChecklist' = NoChecklist
    /\ error' = NoError
    /\ UNCHANGED <<randomUUIDAvailable, deviceConfig, staff, auditLog, now, truePin,
                   wrongRun, lastCall, checklists, syncVars, existingSession,
                   lastStats, lastDelay, pageChecklist, showManagerAuth>>

\* forceCloseSession(checklistId, manager, reason): the stored checklist
\* after the call.  manager is the StaffReference the caller passes.
forceCloseSession(checklist, manager, t) ==
    [checklist EXCEPT
        !.status = "sync_failed",
        !.lastModifiedAt = t,
        !.forceClosedBy = [manager |-> manager, closedAt |-> t]]

\* forceCloseSession with the manager reference taken from managerIds.
ForceCloseSessionBy(managerIds) ==
    /\ \E checklistId \in AllChecklistIds, id \in managerIds, role \in Roles,
          fresh \in FreshConfigs :
         IF checklistId \notin DOMAIN checklists
         THEN /\ error' = NotFound
              /\ UNCHANGED <<checklists, deviceConfig, auditLog, currentChecklist>>
         ELSE
         LET manager == [id |-> id, role |-> role]
             updatedChecklist == forceCloseSession(checklists[checklistId], manager, now)
             la == logAuditEntry(auditLog, deviceConfig, randomUUIDAvailable, fresh,
                                 "session_force_closed", checklistId)
         IN
         /\ checklists' = put(checklists, updatedChecklist)
         /\ deviceConfig' = la.config
         /\ auditLog' = la.log
         /\ currentChecklist' =
               IF ~la.threw /\ currentChecklist.id = checklistId
               THEN NoChecklist ELSE currentChecklist
         /\ error' = IF la.threw THEN StackOverflow ELSE error
    /\ UNCHANGED <<randomUUIDAvailable, staff, now, truePin, wrongRun, lastCall,
                   syncVars, existingSession, lastStats, lastDelay, pageChecklist,
                   showManagerAuth>>

\* The caller passes a reference to a stored staff record.
ForceCloseSession == ForceCloseSessionBy(DOMAIN staff)

\* The caller passes a StaffReference it holds; the store does not look it up.
MaxAudit == 2
HeldReferences == {"u1"}
ForceCloseSessionOfReference ==
    /\ Len(auditLog) < MaxAudit
    /\ ForceCloseSessionBy(HeldReferences)

\* loadFromDb(checklistId)
LoadFromDb ==
    /\ \E checklistId \in AllChecklistIds :
         currentChecklist' = IF checklistId \in DOMAIN checklists
                             THEN checklists[checklistId] ELSE NoChecklist
    /\ UNCHANGED <<randomUUIDAvailable, deviceConfig, staff, auditLog, now, truePin,
                   wrongRun, lastCall, checklists, syncVars, queryVars, pageChecklist,
                   showManagerAuth>>

\* persistToDb()
PersistToDb ==
    /\ currentChecklist # NoChecklist
    /\ checklists' = put(checklists, currentChecklist)
    /\ UNCHANGED <<randomUUIDAvailable, deviceConfig, staff, auditLog, now, truePin,
                   wrongRun, lastCall, syncVars, queryVars, currentChecklist, pageChecklist,
                   showManagerAuth>>

----------------------------------------------------------------------------
(* Home page and conflict detection *)

\* The checklists of a template that checkForActiveSessions filters.
activeSessions(cl, templateId) ==
    {i \in DOMAIN cl : /\ cl[i].templateId = templateId
                       /\ cl[i].status \in {"in_progress", "pending_review"}}

isOwnDevice(session, deviceId) == session.deviceId = deviceId

\* checkForActiveSessions(templateId): the values it can return.  ic is the
\* outcome of getDeviceId(); reading session.startedBy.name of a checklist
\* without startedBy throws, and every exception is turned into null.  The
\* field active is history: lastModifiedAt of the filtered checklists.
checkForActiveSessions(cl, templateId, ic) ==
    LET active == activeSessions(cl, templateId)
        none == [NoSession EXCEPT !.templateId = templateId,
                                  !.active = [i \in active |-> cl[i].lastModifiedAt]]
    IN
    IF ic.threw \/ active = {}
    THEN {[none EXCEPT !.active = IF ic.threw THEN <<>> ELSE @]}
    ELSE {IF cl[i].startedBy = NoStaffRef
          THEN none
          ELSE [none EXCEPT !.found = TRUE,
                            !.checklistId = i,
                            !.deviceId = cl[i].deviceId,
                            !.isOwnDevice = isOwnDevice(cl[i], ic.config.deviceId)]
          : i \in mostRecent(cl, active)}

\* HomePage: handleTemplateSelect(template)
HandleTemplateSelect ==
    /\ \E templateId \in TemplateIds, fresh \in FreshConfigs :
         LET ic == initializeDeviceConfig(deviceConfig, randomUUIDAvailable, fresh) IN
         /\ deviceConfig' = ic.config
         /\ existingSession' \in checkForActiveSessions(checklists, templateId, ic)
    /\ UNCHANGED <<randomUUIDAvailable, staff, auditLog, now, truePin, wrongRun,
                   lastCall, checklists, syncVars, error, lastStats, lastDelay, currentChecklist,
                   pageChecklist, showManagerAuth>>

\* The identifier generated by a call of initializeDeviceConfig whose row is
\* then overwritten by a concurrent call.
OverwrittenDeviceIds == {"devB"}

\* ChecklistPage mounts without ?resume on a device without a config row
\* while another call of initializeDeviceConfig is running (a second tab, a
\* PIN check): both calls read no row, both generate a config and put it.
\* loadData goes on with the config it generated; the row that stays is the
\* other call's.
LoadDataConcurrent ==
    /\ pageChecklist = NoChecklist
    /\ deviceConfig = NoConfig
    /\ ~generateUUIDThrows(randomUUIDAvailable)
    /\ \E templateId \in TemplateIds, other \in FreshConfigs,
          own \in OverwrittenDeviceIds, id \in FreshChecklistIds(checklists) :
         /\ inProgressOf(checklists, templateId) = {}
         /\ deviceConfig' = other
         /\ LET c == newChecklist(id, templateId, own, now) IN
            /\ checklists' = put(checklists, c)
            /\ pageChecklist' = c
    /\ showManagerAuth' = FALSE
    /\ UNCHANGED <<randomUUIDAvailable, staff, auditLog, now, truePin, wrongRun,
                   lastCall, syncVars, queryVars, currentChecklist>>

----------------------------------------------------------------------------
(* Specifications of the checklist page and of the session store *)

\* The managers the settings page adds in these specifications.
AddManager == AddStaffFrom({NameAnn}, {"manager"}, {PinGood})

NextPage ==
    \/ BrowserUpgrade
    \/ GetDeviceId
    \/ AddManager
    \/ LoadData
    \/ LoadDataResume
    \/ HandleTaskUpdate
    \/ AutoSave
    \/ HandleBack
    \/ HandleSubmit
    \/ CloseManagerAuth
    \/ HandleVerifyPin

SpecPage == Init /\ [][NextPage]_vars

NextStore ==
    \/ BrowserUpgrade
    \/ GetDeviceId
    \/ AddManager
    \/ StartChecklist
    \/ ResumeChecklist
    \/ UpdateTask
    \/ SubmitForReview
    \/ ClearSession
    \/ ForceCloseSession
    \/ LoadFromDb
    \/ PersistToDb

SpecStore == Init /\ [][NextStore]_vars

\* clearAllData(): every table of the database is cleared in one
\* transaction; what the page, the store and the outbox hold in memory stays.
ClearAllData ==
    /\ staff' = <<>>
    /\ checklists' = <<>>
    /\ submissions' = <<>>
    /\ deviceConfig' = NoConfig
    /\ auditLog' = <<>>
    /\ truePin' = [id \in StaffIds |-> NoPin]
    /\ wrongRun' = [id \in StaffIds |-> 0]
    /\ UNCHANGED <<randomUUIDAvailable, now, lastCall, outboxInFlight, attemptLog,
                   sheetRows, callLog, queryVars, currentChecklist, pageChecklist,
                   showManagerAuth>>

\* The audit log of a device whose checklists are made on the checklist page.
NextAudit ==
    \/ BrowserUpgrade
    \/ GetDeviceId
    \/ LoadData
    \/ HandleBack
    \/ ForceCloseSessionOfReference
    \/ ClearAllData

SpecAudit == Init /\ [][NextAudit]_vars

\* The staff registry of the settings page.
NextRegistry ==
    \/ BrowserUpgrade
    \/ RegistryAddStaff
    \/ AddStaffConcurrent
    \/ UpdateStaff
    \/ DeactivateStaff
    \/ ReactivateStaff
    \/ ClearAllData

SpecRegistry == Init /\ [][NextRegistry]_vars

\* The session store with task updates that may overlap.
NextStoreConcurrent ==
    \/ BrowserUpgrade
    \/ GetDeviceId
    \/ AddManager
    \/ StartChecklist
    \/ LoadFromDb
    \/ UpdateTask
    \/ UpdateTaskConcurrent

SpecStoreConcurrent == Init /\ [][NextStoreConcurrent]_vars

\* Verify calls that may overlap (the modal submits on every fourth digit,
\* and every tab of the device shares the database).
NextPinConcurrent ==
    \/ BrowserUpgrade
    \/ GetDeviceId
    \/ AddManager
    \/ Tick
    \/ VerifyManagerPin
    \/ VerifyManagerPinConcurrent

SpecPinConcurrent == Init /\ [][NextPinConcurrent]_vars

\* Setting and changing the PIN of the manager the settings page added.
NextPinChange ==
    \/ BrowserUpgrade
    \/ GetDeviceId
    \/ AddManager
    \/ Tick
    \/ VerifyManagerPin
    \/ SetupManagerPin
    \/ ChangeManagerPin

SpecPinChange == Init /\ [][NextPinChange]_vars

\* Date.now() advances while the home page is used.
HomeTick ==
    /\ now < MaxHomeTicks * TimeStep
    /\ now' = now + TimeStep
    /\ UNCHANGED <<randomUUIDAvailable, deviceConfig, staff, auditLog,
                   truePin, wrongRun, lastCall>>
    /\ UNCHANGED sessionVars

NextHome ==
    \/ BrowserUpgrade
    \/ AddManager
    \/ HomeTick
    \/ LoadData
    \/ LoadDataConcurrent
    \/ LoadDataResume
    \/ HandleBack
    \/ HandleTemplateSelect
    \/ StartChecklist
    \/ ResumeChecklist
    \/ SubmitForReview

SpecHome == Init /\ [][NextHome]_vars

----------------------------------------------------------------------------
(* calculateCompletionStats on its own *)

\* The task maps with up to MaxCount tasks of each status.
TaskMapInputs ==
    {[s \in {t \in TaskStatuses : cnt[t] > 0} |-> cnt[s]] :
        cnt \in [TaskStatuses -> 0..MaxCount]}

\* The totalTasks arguments: small ones and the templates' declared totals.
TotalInputs ==
    0..MaxTotal \cup {PASS_OPENING_TOTAL_TASKS, FLOOR_OPENING_TOTAL_TASKS,
                      CLOSING_TOTAL_TASKS}

\* A call calculateCompletionStats(tasks, totalTasks)
CalculateCompletionStats ==
    /\ \E tasks \in TaskMapInputs, totalTasks \in TotalInputs :
         LET stats == calculateCompletionStats(tasks, totalTasks) IN
         lastStats' = [tasks |-> tasks, totalTasks |-> totalTasks,
                       doneCount |-> stats.doneCount,
                       notDoneCount |-> stats.notDoneCount,
                       naCount |-> stats.naCount,
                       completionPercentage |-> stats.completionPercentage]
    /\ UNCHANGED <<randomUUIDAvailable, deviceConfig, staff, auditLog, now, truePin,
                   wrongRun, lastCall, checklists, syncVars, error, existingSession,
                   lastDelay, currentChecklist, pageChecklist, showManagerAuth>>

NextStats ==
    \/ CalculateCompletionStats

SpecStats == Init /\ [][NextStats]_vars

\* The retry counts calculateRetryDelay is called with.
MaxRetryCount == 10
RetryCounts == 0..MaxRetryCount

\* calculateRetryDelay(retryCount), keeping the last two calls.
CalculateRetryDelay ==
    /\ \E retryCount \in RetryCounts :
         LET call == [retryCount |-> retryCount,
                      delay |-> calculateRetryDelay(retryCount)]
         IN lastDelay' = IF lastDelay = <<>> THEN <<call>>
                         ELSE <<lastDelay[Len(lastDelay)], call>>
    /\ UNCHANGED <<randomUUIDAvailable, deviceConfig, staff, auditLog, now, truePin,
                   wrongRun, lastCall, checklists, syncVars, error, existingSession,
                   lastStats, currentChecklist, pageChecklist, showManagerAuth>>

NextRetry ==
    \/ CalculateRetryDelay

SpecRetry == Init /\ [][NextRetry]_vars

----------------------------------------------------------------------------
(* Sync outbox (lib/stores/useSyncStore, hooks/useOfflineSync): the queue   *)
(* that drains db.submissions.  Its types and SYNC_CONFIG are in types/sync, *)
(* its behaviour is the one the design describes.                           *)

\* The PendingSubmission handed to the outbox for an approved checklist.
newSubmission(id, checklist) ==
    [id |-> id, checklistId |-> checklist.id, status |-> "pending",
     pdfStatus |-> "pending", retryCount |-> 0, maxRetries |-> MAX_RETRIES,
     errorLog |-> <<>>, snapshot |-> checklist]

\* The hand-over of an approved checklist to the outbox.
EnqueueSubmission ==
    /\ \E i \in DOMAIN checklists, id \in SubmissionIds \ DOMAIN submissions :
         /\ checklists[i].status = "approved"
         /\ \A s \in DOMAIN submissions : submissions[s].checklistId # i
         /\ submissions' = [s \in DOMAIN submissions \cup {id} |->
                              IF s = id THEN newSubmission(id, checklists[i])
                              ELSE submissions[s]]
    /\ UNCHANGED <<queryVars, randomUUIDAvailable, deviceConfig, staff, auditLog, now, truePin,
                   wrongRun, lastCall, checklists, currentChecklist, pageChecklist,
                   showManagerAuth, outboxInFlight, attemptLog, sheetRows, callLog>>

\* The first step a submission has not completed.
nextStepRedoUpload(sub) ==
    IF sub.status = "pending" THEN "sheets_write"
    ELSE IF sub.pdfStatus = "pending" THEN "pdf_generate"
    ELSE "pdf_upload"
nextStep(sub) ==
    IF sub.status = "pending" THEN "sheets_write"
    ELSE IF sub.pdfStatus = "pending" THEN "pdf_generate"
    ELSE IF sub.pdfStatus = "generated" THEN "pdf_upload"
    ELSE "sheets_update"

\* The persisted progress after a step succeeded.
stepDone(sub, step) ==
    CASE step = "sheets_write" -> [sub EXCEPT !.status = "sheets_done"]
      [] step = "pdf_generate" -> [sub EXCEPT !.pdfStatus = "generated"]
      [] step = "pdf_upload" -> [sub EXCEPT !.pdfStatus = "uploaded"]
      [] step = "sheets_update" -> [sub EXCEPT !.status = "complete"]

retriesExhaustedLate(retryCount, maxRetries) == retryCount > maxRetries
retriesExhausted(retryCount, maxRetries) == retryCount >= maxRetries

\* The persisted record after a step failed.
stepFailed(sub, step, retryable) ==
    LET retryCount == sub.retryCount + 1 IN
    [sub EXCEPT
        !.errorLog = Append(@, [step |-> step, retryable |-> retryable]),
        !.retryCount = retryCount,
        !.status = IF ~retryable \/ retriesExhausted(retryCount, sub.maxRetries)
                   THEN "failed" ELSE @]

callsAfter(calls, step) ==
    IF step \in NetworkSteps THEN Append(calls, step) ELSE calls

\* A submission is picked only while no attempt for it is in flight.
canBeginAlways(inFlight, id) == TRUE
canBegin(inFlight, id) == id \notin inFlight

\* An outbox tick (or a retry that became due) picks a submission that is
\* pending or sheets_done and has no attempt in flight.
BeginAttempt ==
    /\ \E id \in DOMAIN submissions :
         /\ canBegin(outboxInFlight, id)
         /\ submissions[id].status \in {"pending", "sheets_done"}
         /\ outboxInFlight' = outboxInFlight \cup {id}
         /\ attemptLog' = [id |-> id, status |-> submissions[id].status,
                           pdfStatus |-> submissions[id].pdfStatus, calls |-> <<>>,
                           ended |-> "running",
                           resumed |-> attemptLog.ended = "restart",
                           inFlight |-> IF id \in outboxInFlight
                                        THEN attemptLog.inFlight + 1 ELSE 1]
    /\ UNCHANGED <<queryVars, randomUUIDAvailable, deviceConfig, staff, auditLog, now, truePin,
                   wrongRun, lastCall, checklists, currentChecklist, pageChecklist,
                   showManagerAuth, submissions, sheetRows, callLog>>

\* The next step of an attempt succeeds; the last one completes the
\* submission and marks the checklist synced.
StepSucceeds ==
    /\ \E id \in outboxInFlight :
         LET sub == submissions[id]
             step == nextStep(sub)
             done == stepDone(sub, step)
         IN
         /\ submissions' = [submissions EXCEPT ![id] = done]
         /\ attemptLog' = [attemptLog EXCEPT
                              !.calls = callsAfter(@, step),
                              !.ended = IF done.status = "complete" THEN "success" ELSE @,
                              !.inFlight = IF done.status = "complete" THEN @ - 1 ELSE @]
         /\ outboxInFlight' = IF done.status = "complete"
                              THEN outboxInFlight \ {id} ELSE outboxInFlight
         /\ checklists' = IF done.status = "complete"
                          THEN [checklists EXCEPT ![sub.checklistId].status = "synced"]
                          ELSE checklists
    /\ UNCHANGED <<queryVars, randomUUIDAvailable, deviceConfig, staff, auditLog, now, truePin,
                   wrongRun, lastCall, currentChecklist, pageChecklist,
                   showManagerAuth, sheetRows, callLog>>

\* The next step of an attempt fails; the attempt ends.
StepFails ==
    /\ \E id \in outboxInFlight, retryable \in BOOLEAN :
         LET sub == submissions[id]
             step == nextStep(sub)
             failed == stepFailed(sub, step, retryable)
         IN
         /\ submissions' = [submissions EXCEPT ![id] = failed]
         /\ attemptLog' = [attemptLog EXCEPT
                              !.calls = callsAfter(@, step), !.ended = "failure",
                              !.inFlight = @ - 1]
         /\ outboxInFlight' = outboxInFlight \ {id}
         /\ checklists' = IF failed.status = "failed"
                          THEN [checklists EXCEPT ![sub.checklistId].status = "sync_failed"]
                          ELSE checklists
    /\ UNCHANGED <<queryVars, randomUUIDAvailable, deviceConfig, staff, auditLog, now, truePin,
                   wrongRun, lastCall, currentChecklist, pageChecklist,
                   showManagerAuth, sheetRows, callLog>>

\* The application is restarted while an attempt is in flight: what is in
\* memory is lost, what was persisted is kept.
Restart ==
    /\ outboxInFlight # {}
    /\ outboxInFlight' = {}
    /\ attemptLog' = [attemptLog EXCEPT !.ended = "restart", !.inFlight = 0]
    /\ currentChecklist' = NoChecklist
    /\ pageChecklist' = NoChecklist
    /\ showManagerAuth' = FALSE
    /\ UNCHANGED <<queryVars, randomUUIDAvailable, deviceConfig, staff, auditLog, now, truePin,
                   wrongRun, lastCall, checklists, submissions, sheetRows, callLog>>

\* The service worker's 'sync' event with tag 'sync-submissions':
\* syncPendingSubmissions only logs.
BackgroundSync ==
    /\ UNCHANGED vars

\* The checklist page is entered from the template list (no ?resume) and
\* left on approval; the outbox then works on the approved checklist.
NextOutbox ==
    \/ BrowserUpgrade
    \/ GetDeviceId
    \/ AddManager
    \/ LoadData
    \/ HandleTaskUpdate
    \/ HandleBack
    \/ HandleSubmit
    \/ HandleVerifyPin
    \/ EnqueueSubmission
    \/ BeginAttempt
    \/ StepSucceeds
    \/ StepFails
    \/ Restart
    \/ BackgroundSync

SpecOutbox == Init /\ [][NextOutbox]_vars

----------------------------------------------------------------------------
(* app/api/submit/route: POST /api/submit *)

RequiredFields ==
    {"date", "area", "templateName", "templateId", "staff", "manager",
     "completionPercentage", "doneCount", "notDoneCount", "naCount", "totalTasks",
     "startedAt", "submittedAt", "approvedAt", "tasks", "deviceId"}

NoSnapshot == [fields |-> {}, staffIsObject |-> FALSE, present |-> FALSE]

\* The snapshots of the requests: complete, without deviceId, with staff:
\* null, and none.
SnapshotInputs ==
    {[fields |-> RequiredFields, staffIsObject |-> TRUE, present |-> TRUE],
     [fields |-> RequiredFields \ {"deviceId"}, staffIsObject |-> TRUE, present |-> TRUE],
     [fields |-> RequiredFields, staffIsObject |-> FALSE, present |-> TRUE],
     NoSnapshot}

RequestInputs == [submissionId : {"", "sub1", "sub2"}, snapshot : SnapshotInputs]

validateSubmission(body) ==
    /\ body.submissionId # ""
    /\ body.snapshot.present
    /\ RequiredFields \subseteq body.snapshot.fields

SubmitResponse(httpStatus, success, submissionId, status, sheetsRowId, driveFileId) ==
    [httpStatus |-> httpStatus, success |-> success, submissionId |-> submissionId,
     status |-> status, sheetsRowId |-> sheetsRowId, driveFileId |-> driveFileId]

\* POST with the Sheets append carried out on every valid request.
POSTAppending(rows, body) ==
    IF ~validateSubmission(body)
    THEN [rows |-> rows,
          response |-> SubmitResponse(400, FALSE,
                          IF body.submissionId # "" THEN body.submissionId ELSE "unknown",
                          "failed", "", "")]
    ELSE IF ~body.snapshot.staffIsObject
    THEN [rows |-> rows, response |-> SubmitResponse(500, FALSE, "unknown", "failed", "", "")]
    ELSE [rows |-> Append(rows, body.submissionId),
          response |-> SubmitResponse(200, TRUE, body.submissionId, "complete",
                                      "placeholder_row_id", "placeholder_drive_id")]

\* POST(request): the rows of the sheet afterwards and the response.
POST(rows, body) ==
    IF ~validateSubmission(body)
    THEN [rows |-> rows,
          response |-> SubmitResponse(400, FALSE,
                          IF body.submissionId # "" THEN body.submissionId ELSE "unknown",
                          "failed", "", "")]
    ELSE IF ~body.snapshot.staffIsObject
    THEN \* createSheetsRow reads snapshot.staff.name: TypeError, caught
         [rows |-> rows, response |-> SubmitResponse(500, FALSE, "unknown", "failed", "", "")]
    ELSE [rows |-> rows,
          response |-> SubmitResponse(200, TRUE, body.submissionId, "complete",
                                      "placeholder_row_id", "placeholder_drive_id")]

PostSubmit ==
    /\ Len(callLog) < MaxCalls
    /\ \E body \in RequestInputs :
         LET r == POST(sheetRows, body) IN
         /\ sheetRows' = r.rows
         /\ callLog' = Append(callLog, [body |-> body, response |-> r.response,
                                        rowsAdded |-> Len(r.rows) - Len(sheetRows)])
    /\ UNCHANGED <<queryVars, randomUUIDAvailable, deviceConfig, staff, auditLog, now, truePin,
                   wrongRun, lastCall, checklists, currentChecklist, pageChecklist,
                   showManagerAuth, submissions, outboxInFlight, attemptLog>>

NextEndpoint ==
    \/ PostSubmit

SpecEndpoint == Init /\ [][NextEndpoint]_vars

----------------------------------------------------------------------------
(* PIN authenticator claims *)

VerifyOfManager ==
    /\ lastCall.op = "verify"
    /\ lastCall.id \in DOMAIN lastCall.pre
    /\ lastCall.pre[lastCall.id].role = "manager"

\* C1: a manager that starts Unlocked with failedAttempts = 0 and receives
\* three consecutive verify calls with a wrong PIN gets account_locked with
\* lockoutRemaining = 300 from the third call, and the stored record then
\* carries lockedUntil = now + 5 minutes.
C1_ThreeWrongPinsLock ==
    (lastCall.op = "verify" /\ lastCall.run = 3)
        => /\ lastCall.result.error = "account_locked"
           /\ lastCall.result.lockoutRemaining = 300
           /\ lastCall.post[lastCall.id].lockedUntil = lastCall.t + 5 * 60 * 1000

CallWasLocked ==
    /\ VerifyOfManager
    /\ lastCall.pre[lastCall.id].lockedUntil # NoTime
    /\ lastCall.t < lastCall.pre[lastCall.id].lockedUntil

\* C2: a verify call made while the manager is locked (now < lockedUntil)
\* returns account_locked with the remaining seconds, whatever the PIN, and
\* leaves the stored record (failedAttempts, lockedUntil, pinHash) unchanged.
C2_LockedVerifyIsRejectedUnchanged ==
    CallWasLocked
        => /\ lastCall.result =
                Result(FALSE, "account_locked",
                       CeilDiv(lastCall.pre[lastCall.id].lockedUntil - lastCall.t, 1000),
                       NoNum)
           /\ lastCall.post = lastCall.pre

\* A locked manager was given the correct PIN and was still rejected.
C2_Witness ==
    /\ CallWasLocked
    /\ lastCall.pin = truePin[lastCall.id]
    /\ lastCall.result.error = "account_locked"
    /\ lastCall.result.lockoutRemaining = 150

CallAfterLockElapsed ==
    /\ VerifyOfManager
    /\ lastCall.pre[lastCall.id].lockedUntil # NoTime
    /\ lastCall.t >= lastCall.pre[lastCall.id].lockedUntil

\* C3: a verify call made after the lockout has elapsed (now >= lockedUntil)
\* evaluates the PIN from zero failed attempts: a wrong PIN returns
\* invalid_pin with attemptsRemaining = 2 and stores failedAttempts = 1
\* without locking again, a correct PIN returns success.
C3_ElapsedLockStartsFromZero ==
    CallAfterLockElapsed
        => IF WrongPin(lastCall.id, lastCall.pin)
           THEN /\ lastCall.result = Result(FALSE, "invalid_pin", NoNum, 2)
                /\ lastCall.post[lastCall.id].failedAttempts = 1
                /\ lastCall.post[lastCall.id].lockedUntil = NoTime
           ELSE lastCall.result.success

CallWasUnlocked ==
    /\ VerifyOfManager
    /\ lastCall.pre[lastCall.id].lockedUntil = NoTime

\* C22: a verify with the correct PIN in the Unlocked state returns success
\* and stores failedAttempts = 0 with lockedUntil cleared, so the wrong PINs
\* before it do not count towards a later lockout.
C22_CorrectPinResetsAttempts ==
    (CallWasUnlocked /\ ~WrongPin(lastCall.id, lastCall.pin))
        => /\ lastCall.result = Result(TRUE, "none", NoNum, NoNum)
           /\ lastCall.post[lastCall.id].failedAttempts = 0
           /\ lastCall.post[lastCall.id].lockedUntil = NoTime
           /\ lastCall.run = 0
           /\ wrongRun[lastCall.id] = 0

\* The correct PIN was given after two wrong ones.
C22_Witness ==
    /\ CallWasUnlocked
    /\ ~WrongPin(lastCall.id, lastCall.pin)
    /\ lastCall.pre[lastCall.id].failedAttempts = 2
    /\ lastCall.result.success
    /\ staff[lastCall.id].failedAttempts = 0

\* C23: in the Unlocked state with failedAttempts = n and n + 1 < 3, a
\* verify with a wrong PIN stores failedAttempts = n + 1, keeps the account
\* unlocked and returns invalid_pin with attemptsRemaining = 3 - (n + 1).
C23_WrongPinCountsOne ==
    (/\ CallWasUnlocked
     /\ WrongPin(lastCall.id, lastCall.pin)
     /\ lastCall.pre[lastCall.id].failedAttempts + 1 < 3)
        => LET n == lastCall.pre[lastCall.id].failedAttempts IN
           /\ lastCall.post[lastCall.id].failedAttempts = n + 1
           /\ lastCall.post[lastCall.id].lockedUntil = NoTime
           /\ lastCall.result = Result(FALSE, "invalid_pin", NoNum, 3 - (n + 1))

ChangeOfManager ==
    /\ lastCall.op = "changePin"
    /\ lastCall.id \in DOMAIN lastCall.pre

ChangeWasLocked ==
    /\ lastCall.pre[lastCall.id].lockedUntil # NoTime
    /\ lastCall.t < lastCall.pre[lastCall.id].lockedUntil

\* C24: changeManagerPin changes the stored pinHash only when the
\* verification of the current PIN succeeded within the call: with a wrong
\* current PIN or a locked account the pinHash is unchanged, and when the
\* call succeeds the stored record is the one setupManagerPin(newPin)
\* produces (new digest, failedAttempts 0, no lockedUntil).
C24_ChangePinNeedsVerifiedCurrentPin ==
    ChangeOfManager
        => LET before == lastCall.pre[lastCall.id]
               after == lastCall.post[lastCall.id]
           IN
           /\ after.pinHash # before.pinHash => lastCall.verified
           /\ (lastCall.pin # lastCall.oldPin \/ ChangeWasLocked)
                 => /\ after.pinHash = before.pinHash
                    /\ ~lastCall.result.success
           /\ lastCall.result.success
                 => /\ after.pinHash
                          = hashPin(deviceConfig.pinSalt, lastCall.id, lastCall.newPin)
                    /\ after.failedAttempts = 0
                    /\ after.lockedUntil = NoTime
                    /\ isValidPinFormat(lastCall.newPin)

\* The PIN was changed to another one with the correct current PIN.
C24_Witness ==
    /\ ChangeOfManager
    /\ lastCall.result.success
    /\ lastCall.newPin # lastCall.oldPin
    /\ staff[lastCall.id].pinHash # lastCall.pre[lastCall.id].pinHash
    /\ lastCall.pre[lastCall.id].failedAttempts > 0

SetupOfManager ==
    /\ lastCall.op = "setupPin"
    /\ lastCall.id \in DOMAIN lastCall.pre

\* C25: setupManagerPin with a pin that is not exactly 4 decimal digits
\* fails and leaves the manager's stored pinHash, failedAttempts and
\* lockedUntil unchanged; with a valid pin it stores the new digest, sets
\* failedAttempts = 0 and clears lockedUntil.
C25_SetupPinValidatesFormat ==
    SetupOfManager
        => LET before == lastCall.pre[lastCall.id]
               after == lastCall.post[lastCall.id]
           IN
           IF Len(lastCall.pin) = 4 /\ \A i \in 1..4 : lastCall.pin[i] \in Digits
           THEN /\ lastCall.result.success
                /\ after.pinHash = hashPin(deviceConfig.pinSalt, lastCall.id, lastCall.pin)
                /\ after.failedAttempts = 0
                /\ after.lockedUntil = NoTime
           ELSE /\ ~lastCall.result.success
                /\ after = before

----------------------------------------------------------------------------
(* Checklist claims *)

\* C4: in every persisted checklist instance, after the session was started
\* and after any sequence of task updates,
\* doneCount + notDoneCount + naCount = totalTasks.
C4_CountsSumToTotalTasks ==
    \A i \in DOMAIN checklists :
        checklists[i].doneCount + checklists[i].notDoneCount + checklists[i].naCount
            = checklists[i].totalTasks

NonTerminal == {"in_progress", "pending_review", "approved"}

AllowedStatusChange(templateId, from, to) ==
    \/ from = to
    \/ from = "in_progress" /\ to = "pending_review"
    \/ from = "pending_review" /\ to = "approved"
    \/ from = "in_progress" /\ to = "approved" /\ isSingleStaffTemplate(templateId)
    \/ from = "approved" /\ to = "synced"
    \/ from \in NonTerminal /\ to = "sync_failed"

\* C5: the status of a persisted checklist only changes along
\* in_progress -> pending_review -> approved -> synced (in_progress ->
\* approved directly only for single-staff templates), approved ->
\* sync_failed, and any non-terminal status -> force-closed; it never moves
\* backward or out of a terminal status.
C5_StatusOnlyMovesForward ==
    [][\A i \in DOMAIN checklists :
          i \in DOMAIN checklists' =>
             AllowedStatusChange(checklists[i].templateId,
                                 checklists[i].status, checklists'[i].status)]_vars

BecomesApproved(i) ==
    /\ i \in DOMAIN checklists'
    /\ checklists'[i].status = "approved"
    /\ (i \in DOMAIN checklists => checklists[i].status # "approved")

\* C6: a checklist becomes approved only in a step in which the manager's
\* PIN verification returned success; a verification that returns
\* invalid_pin, account_locked or not_found never leads to approved; the
\* approval sets approvedAt and the manager snapshot.
C6_ApprovedOnlyOnPinSuccess ==
    [][\A i \in ChecklistIds :
          BecomesApproved(i) =>
             \E pin \in VerifyPins, fresh \in FreshConfigs :
                LET managerId == checklists'[i].manager
                    r == verifyManagerPin(staff, deviceConfig, randomUUIDAvailable,
                                          fresh, managerId, pin, now)
                IN /\ managerId \in activeManagers(staff)
                   /\ r.result.success
                   /\ r.result.error \notin {"invalid_pin", "account_locked", "not_found"}
                   /\ staff' = r.staff
                   /\ lastCall'.op = "verify"
                   /\ lastCall'.id = managerId
                   /\ lastCall'.pin = pin
                   /\ lastCall'.result = r.result
                   /\ checklists'[i].approvedAt = now]_vars

C6_Witness ==
    /\ lastCall.op = "verify"
    /\ lastCall.result.success
    /\ \E i \in DOMAIN checklists :
         /\ checklists[i].status = "approved"
         /\ checklists[i].manager = lastCall.id
         /\ checklists[i].approvedAt # NoTime

submissionsOf(i) == {s \in DOMAIN submissions : submissions[s].checklistId = i}

\* C7: approving a checklist enqueues exactly one PendingSubmission with
\* status pending and retryCount 0: every approved checklist has exactly
\* one submission, and no checklist that was not approved has one.
C7_ApprovedHasOneSubmission ==
    \A i \in DOMAIN checklists :
        /\ checklists[i].status = "approved"
              => /\ Cardinality(submissionsOf(i)) = 1
                 /\ \A s \in submissionsOf(i) :
                       submissions[s].status = "pending" /\ submissions[s].retryCount = 0
        /\ checklists[i].status \in {"in_progress", "pending_review"}
              => submissionsOf(i) = {}

----------------------------------------------------------------------------
(* Sync claims *)

\* C8: a retry skips the steps that are already completed: an attempt that
\* starts from status = sheets_done and pdfStatus = uploaded issues exactly
\* one network call, sheets_update, and none of the earlier steps, also when
\* it starts after a restart.
C8_RetrySkipsCompletedSteps ==
    (attemptLog.status = "sheets_done" /\ attemptLog.pdfStatus = "uploaded")
        => /\ attemptLog.calls \in {<<>>, <<"sheets_update">>}
           /\ attemptLog.ended \in {"success", "failure"}
                 => attemptLog.calls = <<"sheets_update">>

C8_Witness ==
    /\ attemptLog.status = "sheets_done"
    /\ attemptLog.pdfStatus = "uploaded"
    /\ attemptLog.resumed
    /\ attemptLog.ended = "success"
    /\ attemptLog.calls = <<"sheets_update">>

allRetryable(sub) == \A k \in DOMAIN sub.errorLog : sub.errorLog[k].retryable

C9_State ==
    \A s \in DOMAIN submissions :
        LET sub == submissions[s] IN
        /\ sub.retryCount = Len(sub.errorLog)
        /\ allRetryable(sub) =>
              /\ sub.retryCount <= sub.maxRetries
              /\ sub.status = "failed" <=> sub.retryCount = sub.maxRetries
              /\ sub.retryCount < sub.maxRetries
                    => sub.status \in {"pending", "sheets_done", "complete"}
        /\ sub.status = "failed" =>
              /\ s \notin outboxInFlight
              /\ checklists[sub.checklistId].status = "sync_failed"

C9_Step ==
    \A s \in DOMAIN submissions :
        submissions[s].status = "failed" =>
            /\ submissions'[s] = submissions[s]
            /\ outboxInFlight' = outboxInFlight

sameSubmissionId(i, j) ==
    /\ callLog[i].body.submissionId # ""
    /\ callLog[i].body.submissionId = callLog[j].body.submissionId

rowsOf(id) == {k \in DOMAIN sheetRows : sheetRows[k] = id}

----------------------------------------------------------------------------
(* Session manager claims *)

\* The most recently modified checklists among those checkForActiveSessions
\* filtered at its last call.
mostRecentActive ==
    {i \in DOMAIN existingSession.active :
        \A j \in DOMAIN existingSession.active :
            existingSession.active[j] <= existingSession.active[i]}

\* C12: when a template has an active instance, checkForActiveSessions
\* returns that instance with isOwnDevice true exactly when the instance's
\* deviceId is the local device id, and false when it was started on another
\* device.
C12_IsOwnDeviceTellsTheDevice ==
    existingSession.active # <<>>
        => /\ existingSession.found
           /\ existingSession.isOwnDevice
                 <=> (checklists[existingSession.checklistId].deviceId
                         = deviceConfig.deviceId)

\* C13: checkForActiveSessions returns none exactly when the template has no
\* instance with status in_progress or pending_review; otherwise it returns
\* a matching instance with the greatest lastModifiedAt.
C13_NoneExactlyWhenNoActiveInstance ==
    existingSession.templateId # ""
        => /\ existingSession.found <=> existingSession.active # <<>>
           /\ existingSession.found => existingSession.checklistId \in mostRecentActive

\* A resumption: resumeChecklist of the store, or the checklist page mounted
\* with ?resume.
C14_Step ==
    /\ ResumeChecklist
          => /\ error' \in {NotFound, WrongDevice} => currentChecklist' = currentChecklist
             /\ currentChecklist' # currentChecklist
                   => currentChecklist'.deviceId = deviceConfig'.deviceId
    /\ LoadDataResume
          => pageChecklist'.deviceId = deviceConfig'.deviceId

\* C14: resumption fails with NotFound for an unknown id and with WrongDevice
\* for a checklist whose deviceId is not the local device id, leaving the
\* current session unchanged; a checklist of another device never becomes the
\* current editable session by resumption.
C14_ResumptionIsOwnDeviceOnly == [][C14_Step]_vars

\* The step is a forceCloseSession that changes the stored checklist i.
ForceClosed(i) ==
    /\ ForceCloseSession
    /\ i \in DOMAIN checklists
    /\ checklists'[i] # checklists[i]

\* C15: forceCloseSession changes an instance only when the instance is
\* non-terminal and the actor is a manager; it then sets the closed status,
\* records the manager and closedAt, and appends a session_force_closed
\* audit entry for the instance.
C15_ForceCloseManagerOnlyNonTerminal ==
    [][\A i \in AllChecklistIds :
          ForceClosed(i)
             => /\ checklists[i].status \in NonTerminal
                /\ checklists'[i].forceClosedBy.manager.role = "manager"
                /\ checklists'[i].status = "sync_failed"
                /\ checklists'[i].forceClosedBy.closedAt = now
                /\ Len(auditLog') = Len(auditLog) + 1
                /\ auditLog'[Len(auditLog')].action = "session_force_closed"
                /\ auditLog'[Len(auditLog')].entityId = i]_vars

\* p is n / d rounded to the nearest integer, halves up (d > 0).
IsRounded(p, n, d) == 2 * p * d <= 2 * n + d /\ 2 * n + d < 2 * (p + 1) * d

\* The counters and the percentage of c are those of its task map.
CountersMatchTasks(c) ==
    /\ c.doneCount = CopiesIn("done", c.tasks)
    /\ c.notDoneCount = CopiesIn("not_done", c.tasks)
    /\ c.naCount = CopiesIn("na", c.tasks)
    /\ c.doneCount + c.notDoneCount + c.naCount = BagCardinality(c.tasks)
    /\ IF c.totalTasks > c.naCount
       THEN IsRounded(c.completionPercentage, 100 * c.doneCount, c.totalTasks - c.naCount)
       ELSE c.completionPercentage = 100

\* An updateTask call on a loaded checklist: one entry of the task map is
\* replaced, the record written is the store's new current checklist, its
\* lastModifiedAt is the time of the call, and nothing else is written.
C16_Step ==
    (UpdateTask /\ currentChecklist # NoChecklist)
        => LET id == currentChecklist.id
               c == checklists'[id]
           IN /\ \E old \in TaskStatuses, new \in TaskStatuses :
                    /\ BagIn(old, currentChecklist.tasks)
                    /\ c.tasks (+) SetToBag({old})
                          = currentChecklist.tasks (+) SetToBag({new})
              /\ CountersMatchTasks(c)
              /\ c.lastModifiedAt = now
              /\ currentChecklist' = c
              /\ \A j \in DOMAIN checklists \ {id} : checklists'[j] = checklists[j]
              /\ DOMAIN checklists' = DOMAIN checklists \cup {id}
              /\ auditLog' = auditLog /\ submissions' = submissions /\ staff' = staff

\* C16: after every updateTask the persisted checklist has the task's entry
\* replaced, its counters and percentage computed from the whole persisted
\* task map and lastModifiedAt set, in one store write: the counters of a
\* persisted checklist never drift from its task map.
C16_UpdateTaskKeepsCountersInStep ==
    /\ [](\A i \in DOMAIN checklists : CountersMatchTasks(checklists[i]))
    /\ [][C16_Step]_vars

C16_Witness ==
    /\ currentChecklist # NoChecklist
    /\ currentChecklist.id \in DOMAIN checklists
    /\ checklists[currentChecklist.id] = currentChecklist
    /\ currentChecklist.doneCount > 1
    /\ currentChecklist.naCount > 0
    /\ currentChecklist.notDoneCount > 0

\* The number of entries of a task map that have the given status.
NumberWithStatus(tasks, status) ==
    IF status \in DOMAIN tasks THEN tasks[status] ELSE 0

\* C17: calculateCompletionStats returns as doneCount, notDoneCount and
\* naCount the number of tasks with each status, and as completionPercentage
\* doneCount / (totalTasks - naCount) * 100 rounded to the nearest integer
\* when totalTasks > naCount, and 100 otherwise.
C17_StatsCountAndRound ==
    lastStats # NoStats
        => /\ lastStats.doneCount = NumberWithStatus(lastStats.tasks, "done")
           /\ lastStats.notDoneCount = NumberWithStatus(lastStats.tasks, "not_done")
           /\ lastStats.naCount = NumberWithStatus(lastStats.tasks, "na")
           /\ IF lastStats.totalTasks > lastStats.naCount
              THEN IsRounded(lastStats.completionPercentage, 100 * lastStats.doneCount,
                             lastStats.totalTasks - lastStats.naCount)
              ELSE lastStats.completionPercentage = 100

\* 1 of 8 applicable tasks done, one task na: 12.5 is rounded to 13.
C17_Witness ==
    /\ lastStats.naCount = 1
    /\ lastStats.doneCount = 1
    /\ lastStats.totalTasks - lastStats.naCount = 8
    /\ lastStats.completionPercentage = 13

\* Every task of the checklist's template is done or na.
EveryTaskDoneOrNa(c) ==
    /\ NumberWithStatus(c.tasks, "not_done") = 0
    /\ BagCardinality(c.tasks) = getAllTaskIds(c.templateId)

\* C18: a checklist in which every template task is done or na has
\* completionPercentage 100 and notDoneCount 0, the condition under which the
\* page enables submission.
C18_AllTasksDoneIsComplete ==
    \A i \in DOMAIN checklists :
        EveryTaskDoneOrNa(checklists[i])
            => /\ checklists[i].completionPercentage = 100
               /\ checklists[i].notDoneCount = 0
               /\ isComplete(checklists[i])

\* The step is a startChecklist call that persists the new checklist id.
Started(id) ==
    /\ StartChecklist
    /\ id \notin DOMAIN checklists
    /\ id \in DOMAIN checklists'

\* The step appends one audit entry with the given action for the entity.
Audited(action, id) ==
    /\ Len(auditLog') = Len(auditLog) + 1
    /\ auditLog'[Len(auditLog')].action = action
    /\ auditLog'[Len(auditLog')].entityId = id

\* C19: startChecklist creates an instance with one not_done entry per task
\* of the template, the local device id and status in_progress, persists it,
\* appends a checklist_started audit entry and makes it the current session.
C19_StartCreatesAuditsAndLoads ==
    [][\A id \in StoreChecklistIds :
          Started(id)
             => LET c == checklists'[id] IN
                /\ c.tasks = AllNotDone(getAllTaskIds(c.templateId))
                /\ c.status = "in_progress"
                /\ c.deviceId = deviceConfig'.deviceId
                /\ Audited("checklist_started", id)
                /\ currentChecklist' = c]_vars

\* C20: startChecklist is all-or-nothing: the checklist and its audit entry
\* are both committed or neither is, and whenever it reports an error no new
\* instance is visible in the store.
C20_StartIsAllOrNothing ==
    [][StartChecklist
          => /\ (DOMAIN checklists' # DOMAIN checklists) <=> (auditLog' # auditLog)
             /\ error' # NoError => checklists' = checklists]_vars

\* C21: updateTask rejects a not_done set as a manager override (a task
\* that was done is set to not_done on a checklist under review) when no note
\* is given, and leaves the checklist unchanged.
C21_OverrideWithoutNoteIsRejected ==
    [][(/\ currentChecklist.status = "pending_review"
        /\ UpdateTaskCall("done", "not_done", NoNote))
          => UNCHANGED <<checklists, currentChecklist>>]_vars

\* The audit log holds an entry with the first action for the checklist and,
\* after it, an entry with the second action for the same checklist.
AuditedInOrder(id, first, second) ==
    \E j \in 1..Len(auditLog), k \in 1..Len(auditLog) :
        /\ j < k
        /\ auditLog[j].action = first /\ auditLog[j].entityId = id
        /\ auditLog[k].action = second /\ auditLog[k].entityId = id

\* C26: for every approved checklist the audit log contains a
\* checklist_submitted entry followed by a checklist_approved entry for it.
C26_ApprovalIsAudited ==
    \A id \in DOMAIN checklists :
        checklists[id].status = "approved"
            => AuditedInOrder(id, "checklist_submitted", "checklist_approved")

\* The step keeps every entry of the audit log where and as it was.
AuditEntriesKept ==
    \A k \in 1..Len(auditLog) :
        /\ k <= Len(auditLog')
        /\ auditLog'[k] = auditLog[k]

\* C27: the audit log is append-only: once an entry is written, no operation
\* changes or removes it.
C27_AuditLogIsAppendOnly == [][AuditEntriesKept]_vars

----------------------------------------------------------------------------
(* Staff registry claims *)

\* The step is a deactivateStaff call for a stored record.
Deactivation ==
    /\ DeactivateStaff
    /\ lastCall'.op = "deactivateStaff"
    /\ lastCall'.id \in DOMAIN staff

\* C28: staff records are never deleted: every record stays in the store;
\* deactivating a staff member only sets active = false with deactivatedAt,
\* and a record with active = false is in neither activeStaff nor
\* activeManagers.
C28_Step ==
    /\ \A id \in DOMAIN staff : id \in DOMAIN staff'
    /\ Deactivation
         => LET id == lastCall'.id IN
            /\ staff' = [staff EXCEPT ![id].active = FALSE, ![id].deactivatedAt = now]
            /\ id \notin activeStaff(staff')
            /\ id \notin activeManagers(staff')

C28_StaffRecordsAreNeverDeleted == [][C28_Step]_vars

\* C29: after any sequence of addStaff and updateStaff calls, no two staff
\* records have names that are equal ignoring case.
C29_NamesUniqueIgnoringCase ==
    \A i \in DOMAIN staff, j \in DOMAIN staff :
        i # j => ToLowerCase(staff[i].name) # ToLowerCase(staff[j].name)

----------------------------------------------------------------------------
(* Retry delay claims *)

\* 1000 ms * 2^retryCount, by repeated doubling.
Doubled(retryCount) ==
    LET d[n \in 0..retryCount] == IF n = 0 THEN 1000 ELSE d[n - 1] + d[n - 1]
    IN d[retryCount]

\* C30: the retry delay is min(1000 ms * 2^retryCount, 60000 ms), computed
\* from the retryCount of the failed attempt (1000 ms at retryCount 0,
\* 2000 ms at retryCount 1); it never decreases as retryCount grows and
\* never exceeds 60000 ms.
C30_RetryDelayIsCappedBackoff ==
    /\ \A k \in DOMAIN lastDelay :
         LET call == lastDelay[k] IN
         /\ call.delay = IF Doubled(call.retryCount) <= 60000
                         THEN Doubled(call.retryCount) ELSE 60000
         /\ call.delay <= 60000
         /\ call.retryCount = 0 => call.delay = 1000
         /\ call.retryCount = 1 => call.delay = 2000
    /\ \A j \in DOMAIN lastDelay, k \in DOMAIN lastDelay :
         lastDelay[j].retryCount <= lastDelay[k].retryCount
            => lastDelay[j].delay <= lastDelay[k].delay

\* A call below the cap (32000 ms at retryCount 5) followed by one at the
\* cap (64000 ms cut to 60000 ms at retryCount 6).
C30_Witness ==
    /\ Len(lastDelay) = 2
    /\ lastDelay[1] = [retryCount |-> 5, delay |-> 32000]
    /\ lastDelay[2] = [retryCount |-> 6, delay |-> 60000]

----------------------------------------------------------------------------
(* Pipeline order claims *)

\* C31: the pipeline steps take effect in the order sheets_write,
\* pdf_generate, pdf_upload, sheets_update: a submission is reported complete
\* only after the summary row of step 1 has been written to the sheet (and
\* then patched with the document link).
C31_CompleteOnlyAfterRowWritten ==
    \A i \in DOMAIN callLog :
        callLog[i].response.status = "complete"
            => rowsOf(callLog[i].body.submissionId) # {}

----------------------------------------------------------------------------
(* Force-close claims *)

ActiveStatuses == {"in_progress", "pending_review"}

\* The stored checklist carries the terminal status forceCloseSession wrote.
ForceClosedStored(i) ==
    /\ i \in DOMAIN checklists
    /\ checklists[i].status = "sync_failed"
    /\ checklists[i].forceClosedBy # NoForceClose

\* C32: once forceCloseSession has persisted the closed status of a
\* checklist, no write prepared from an earlier in-memory copy puts the
\* checklist back into in_progress or pending_review.
C32_Step ==
    \A i \in AllChecklistIds :
        (ForceClosedStored(i) /\ i \in DOMAIN checklists')
            => checklists'[i].status \notin ActiveStatuses

C32_ForceCloseIsNotUndone == [][C32_Step]_vars

----------------------------------------------------------------------------
(* Concurrency claims *)

\* Two overlapping verify calls for a stored manager, neither of which reset
\* the counter (no PIN matched, no expired lock was cleared).
OverlapWithoutReset ==
    /\ lastCall.op = "verifyConcurrent"
    /\ lastCall.id \in DOMAIN lastCall.pre
    /\ lastCall.pre[lastCall.id].lockedUntil = NoTime
    /\ ~lastCall.result.success
    /\ lastCall.mismatches = 2

\* C33: under any interleaving of concurrent verify calls for one manager
\* every wrong PIN that is evaluated is counted: the stored failedAttempts is
\* never lower than the number of mismatches evaluated since the last reset.
C33_EveryMismatchIsCounted ==
    OverlapWithoutReset
        => lastCall.post[lastCall.id].failedAttempts
              >= lastCall.pre[lastCall.id].failedAttempts + lastCall.mismatches

\* C34: when two updateTask calls for different tasks of the current
\* checklist overlap, the persisted checklist afterwards contains both task
\* changes and counters consistent with both; neither update is lost.
C34_Step ==
    \A old1 \in TaskStatuses, status1 \in TaskStatuses,
       old2 \in TaskStatuses, status2 \in TaskStatuses :
        UpdateTaskOverlap(old1, status1, old2, status2)
            => LET stored == checklists'[currentChecklist.id]
                   both == SetTask(SetTask(currentChecklist.tasks, old1, status1),
                                   old2, status2)
               IN /\ stored.tasks = both
                  /\ CountersMatchTasks(stored)

C34_OverlappingUpdatesAreBothKept == [][C34_Step]_vars

----------------------------------------------------------------------------
(* Session uniqueness claims *)

\* C35: in the local store there is at most one active checklist instance
\* (status in_progress or pending_review) per template.
C35_OneActiveInstancePerTemplate ==
    \A i \in DOMAIN checklists, j \in DOMAIN checklists :
        (/\ checklists[i].status \in ActiveStatuses
         /\ checklists[j].status \in ActiveStatuses
         /\ checklists[i].templateId = checklists[j].templateId)
            => i = j

\* C36: after forceCloseSession has closed a checklist, the active sessions
\* checkForActiveSessions selects from for its template do not contain it,
\* and if the closed checklist was the current session, the current session
\* is cleared.
C36_Step ==
    \A i \in AllChecklistIds :
        ForceClosed(i)
            => /\ i \notin activeSessions(checklists', checklists[i].templateId)
               /\ currentChecklist.id = i => currentChecklist' = NoChecklist

C36_ForceCloseFreesTheTemplate == [][C36_Step]_vars

----------------------------------------------------------------------------
(* Device configuration claims *)

\* C37: the device configuration is created once and never changes: every
\* call of getDeviceId, concurrent calls on first run included, returns the
\* deviceId that is persisted, so the deviceId a checklist was created with
\* is the one of the stored configuration.
C37_ReturnedDeviceIdIsThePersistedOne ==
    \A i \in DOMAIN checklists :
        checklists[i].deviceId = deviceConfig.deviceId

\* C38: generateUUID of the database module terminates and returns an
\* identifier in every environment, so every getDeviceId call completes and
\* leaves a device configuration, also on first run.
C38_GetDeviceIdCompletes ==
    lastCall.op = "getDeviceId"
        => /\ lastCall.result.success
           /\ deviceConfig # NoConfig

----------------------------------------------------------------------------
(* Range claims *)

\* C39: in every reachable state of a checklist created from one of the
\* shipped templates, completionPercentage is between 0 and 100 inclusive.
C39_PercentageWithinRange ==
    \A i \in DOMAIN checklists :
        /\ checklists[i].completionPercentage >= 0
        /\ checklists[i].completionPercentage <= 100

----------------------------------------------------------------------------
(* Staff creation claims *)

\* The last call was an addStaff that persisted a new manager record.
ManagerAdded ==
    /\ lastCall.op = "addStaff"
    /\ lastCall.id \notin DOMAIN lastCall.pre
    /\ lastCall.id \in DOMAIN lastCall.post
    /\ lastCall.post[lastCall.id].role = "manager"

====
